---------------------------- MODULE Spec2Model ----------------------------
(***************************************************************************)
(* A model of the GeoTag-X project validator (othieno/geotagx-tool-        *)
(* validator): the validators of src/src/helper.py, question.py,           *)
(* project.py, task_presenter.py, tutorial.py and core.py.                 *)
(*                                                                         *)
(* Python values are tagged records; a Python string is a TLA+ string and  *)
(* its characters are read with SubSeq.  A dict is the sequence of its     *)
(* (key, value) items in iteration order.  Every validator is an operator  *)
(* that takes the language-code cache it runs with and yields an outcome:  *)
(* the value returned or the exception raised, and the cache it leaves.    *)
(***************************************************************************)
EXTENDS Integers, Sequences, FiniteSets, TLC

VARIABLES
    KNOWN_LANGUAGE_CODES,   \* is_language_code.KNOWN_LANGUAGE_CODES
    hashOrder,              \* the order in which this build iterates a frozenset
    fn,                     \* the validator called last
    args,                   \* the arguments of that call
    out,                    \* its outcome
    visited,                \* the members a running is_configuration_set has validated
    threads                 \* the is_language_code call of each thread

vars == <<KNOWN_LANGUAGE_CODES, hashOrder, fn, args, out, visited, threads>>

-----------------------------------------------------------------------------
(* Python values *)

None == [t |-> "none"]
Str(s) == [t |-> "str", s |-> s]
Num(n) == [t |-> "int", n |-> n]
Bool(b) == [t |-> "bool", b |-> b]
List(l) == [t |-> "list", l |-> l]
Dict(d) == [t |-> "dict", d |-> d]
Pair(valid, message) == [t |-> "tuple", valid |-> valid, message |-> message]

IsNone(v) == v.t = "none"
IsStr(v) == v.t = "str"
IsDict(v) == v.t = "dict"
IsList(v) == v.t = "list"
IsBool(v) == v.t = "bool"
\* isinstance(v, int): bool is a subclass of int.
IsInt(v) == v.t \in {"int", "bool"}
\* IntOf reading every integer as zero
IntOf_Zero(v) == 0

IntOf(v) == IF v.t = "bool" THEN (IF v.b THEN 1 ELSE 0) ELSE v.n

\* The truth value Python gives a value in a condition.
Truthy(v) ==
    CASE v.t = "none" -> FALSE
      [] v.t = "bool" -> v.b
      [] v.t = "int" -> v.n # 0
      [] v.t = "str" -> v.s # ""
      [] v.t = "list" -> v.l # <<>>
      [] v.t = "dict" -> v.d # <<>>
      [] OTHER -> TRUE

\* dict operations: k in d, d.get(k), d[k] (for a key that is present), d.keys()
Keys(d) == [i \in 1..Len(d.d) |-> d.d[i][1]]
KeySet(d) == {d.d[i][1] : i \in 1..Len(d.d)}
HasKey(d, k) == k \in KeySet(d)
Get(d, k) ==
    IF HasKey(d, k)
    THEN d.d[CHOOSE i \in 1..Len(d.d) : d.d[i][1] = k][2]
    ELSE None

\* a dict has no two items with the same key

-----------------------------------------------------------------------------
(* Outcomes of a call *)

Return(v, kc) == [k |-> "return", val |-> v, exc |-> "", kc |-> kc]
Raise(e, kc) == [k |-> "raise", val |-> None, exc |-> e, kc |-> kc]

Returned(o) == o.k = "return"
Raised(o, e) == o.k = "raise" /\ o.exc = e
\* the call returned a pair (valid, message)
\* name = value; body: the value of a call is computed once and then named
Bind(value, body(_)) == body(value)

ReturnedPair(o) == o.k = "return" /\ o.val.t = "tuple"
ReturnedValid(o) == ReturnedPair(o) /\ o.val.valid /\ IsNone(o.val.message)
ReturnedInvalid(o) == ReturnedPair(o) /\ ~o.val.valid /\ IsStr(o.val.message)

-----------------------------------------------------------------------------
(* Strings: characters, str.join, substring *)

Lower == {"a", "b", "c", "d", "e", "f", "g", "h", "i", "j", "k", "l", "m",
          "n", "o", "p", "q", "r", "s", "t", "u", "v", "w", "x", "y", "z"}
Upper == {"A", "B", "C", "D", "E", "F", "G", "H", "I", "J", "K", "L", "M",
          "N", "O", "P", "Q", "R", "S", "T", "U", "V", "W", "X", "Y", "Z"}
Digit == {"0", "1", "2", "3", "4", "5", "6", "7", "8", "9"}
Whitespace == {" ", "\t", "\n", "\r"}

\* s[i-1:j], the characters i..j of s (1-based, clipped to the string)
Slice(s, i, j) ==
    LET lo == IF i < 1 THEN 1 ELSE i
        hi == IF j > Len(s) THEN Len(s) ELSE j
    IN  IF lo > hi THEN "" ELSE SubSeq(s, lo, hi)

CharAt(s, i) == Slice(s, i, i)

\* str.isspace(): at least one character, and all of them whitespace
IsSpace(s) == Len(s) > 0 /\ \A i \in 1..Len(s) : CharAt(s, i) \in Whitespace

\* sep.join(l) for a list of strings
RECURSIVE Join(_, _)
Join(sep, l) ==
    IF l = <<>> THEN ""
    ELSE IF Len(l) = 1 THEN l[1]
    ELSE l[1] \o sep \o Join(sep, Tail(l))

\* sub in s
Contains(s, sub) ==
    \E i \in 1..(Len(s) - Len(sub) + 1) : Slice(s, i, i + Len(sub) - 1) = sub

\* The length of the longest run of characters of class cls that starts at
\* position from of s and has at most max characters: what a greedy
\* [cls]{..,max} consumes.
RECURSIVE GreedyRun(_, _, _, _)
GreedyRun(s, from, cls, max) ==
    IF max = 0 \/ from > Len(s) \/ CharAt(s, from) \notin cls THEN 0
    ELSE 1 + GreedyRun(s, from + 1, cls, max - 1)


-----------------------------------------------------------------------------
(* src/src/helper.py *)

\* check_arg_type raises TypeError unless isinstance(arg_value, expected_type);
\* types is the set of tags the expected type(s) cover.
ArgTypeOk(v, types) == v.t \in types

is_empty_string(empty_string, kc) ==
    IF ~ArgTypeOk(empty_string, {"str"}) THEN Raise("TypeError", kc)
    ELSE Return(Bool(empty_string.s = "" \/ IsSpace(empty_string.s)), kc)

\* re.match("[A-Z]{2}", code): the match's group(), or None
Match3166(s) ==
    IF GreedyRun(s, 1, Upper, 2) = 2 THEN Str(Slice(s, 1, 2)) ELSE None

is_iso_3166_1_alpha_2_code(code, kc) ==
    LET e == is_empty_string(code, kc) IN
    IF Raised(e, "TypeError") THEN Return(Bool(FALSE), kc)
    ELSE IF Truthy(e.val) THEN Return(Bool(FALSE), kc)
    ELSE LET matches == Match3166(code.s) IN
         \* matches and matches.group() == code
         IF IsNone(matches) THEN Return(None, kc)
         ELSE Return(Bool(matches.s = code.s), kc)

\* Match15924 matching four characters whatever their case
Match15924_AnyCase(s) == Str(Slice(s, 1, 4))

\* re.match("[A-Z]{1}[a-z]{3}", code): the match's group(), or None
Match15924(s) ==
    IF GreedyRun(s, 1, Upper, 1) = 1 /\ GreedyRun(s, 2, Lower, 3) = 3
    THEN Str(Slice(s, 1, 4)) ELSE None

is_iso_15924_code(code, kc) ==
    LET e == is_empty_string(code, kc) IN
    IF Raised(e, "TypeError") THEN Return(Bool(FALSE), kc)
    ELSE IF Truthy(e.val) THEN Return(Bool(FALSE), kc)
    ELSE LET matches == Match15924(code.s) IN
         IF IsNone(matches) THEN Return(None, kc)
         ELSE Return(Bool(matches.s = code.s), kc)

\* re.match(r"([a-z]{2,3})(-[a-zA-Z]{2,4})?", code): None, or the match with
\* its group() and group(2).  Each quantifier is greedy, and the optional
\* group is skipped when it cannot match.
MatchLanguage(s) ==
    LET n1 == GreedyRun(s, 1, Lower, 3)
        n2 == IF CharAt(s, n1 + 1) = "-"
              THEN GreedyRun(s, n1 + 2, Lower \cup Upper, 4) ELSE 0
    IN  IF n1 < 2 THEN None
        ELSE IF n2 >= 2
             THEN [t |-> "match", group |-> Slice(s, 1, n1 + 1 + n2),
                   group2 |-> Str(Slice(s, n1 + 1, n1 + 1 + n2))]
             ELSE [t |-> "match", group |-> Slice(s, 1, n1), group2 |-> None]

\* IsVariety taking any two to four letters for a variety
IsVariety_AnyLetters(variety, kc) == Bool(TRUE)

\* IsVariety answering with the match rather than with a boolean
IsVariety_Match(variety, kc) == [t |-> "match"]

\* not variety or is_iso_3166_1_alpha_2_code(variety[1:])
\*             or is_iso_15924_code(variety[1:]),
\* where variety[1:] skips the hyphen separator
IsVariety(variety, kc) ==
    IF ~Truthy(variety) THEN Bool(TRUE)
    ELSE Bind(Str(Slice(variety.s, 2, Len(variety.s))), LAMBDA tail :
         Bind(is_iso_3166_1_alpha_2_code(tail, kc).val, LAMBDA a :
         IF Truthy(a) THEN a ELSE is_iso_15924_code(tail, kc).val))

\* KNOWN_LANGUAGE_CODES.add replacing the set by one that holds the code alone
Add_Replacing(known_language_codes, code) == {code}

\* KNOWN_LANGUAGE_CODES.add taking out a code that is already in the set
Add_Toggling(known_language_codes, code) ==
    IF code \in known_language_codes
    THEN known_language_codes \ {code} ELSE known_language_codes \cup {code}

\* is_language_code.KNOWN_LANGUAGE_CODES.add(code)
Add(known_language_codes, code) == known_language_codes \cup {code}

is_language_code(code, kc) ==
    LET e == is_empty_string(code, kc) IN
    IF Raised(e, "TypeError") THEN Return(Bool(FALSE), kc)
    ELSE IF Truthy(e.val) THEN Return(Bool(FALSE), kc)
    ELSE IF code \in kc THEN Return(Bool(TRUE), kc)
    ELSE Bind(MatchLanguage(code.s), LAMBDA matches :
         IF ~IsNone(matches) /\ matches.group = code.s
         THEN Bind(IsVariety(matches.group2, kc), LAMBDA valid :
                  IF Truthy(valid) THEN Return(valid, Add(kc, code))
                  ELSE Return(valid, kc))
         ELSE Return(Bool(FALSE), kc))

\* l in normalized_string raises TypeError for an unhashable l
Hashable(v) == v.t \notin {"list", "dict"}

\* all(is_language_code(k) and not is_empty_string(v) for k, v in items),
\* from item i on: all() stops at the first false element, and a TypeError
\* of is_empty_string leaves the generator.
RECURSIVE AllNormalizedItems(_, _, _)
AllNormalizedItems(items, i, kc) ==
    IF i > Len(items) THEN Return(Bool(TRUE), kc)
    ELSE Bind(is_language_code(items[i][1], kc), LAMBDA c :
         IF ~Truthy(c.val) THEN Return(Bool(FALSE), c.kc)
         ELSE Bind(is_empty_string(items[i][2], c.kc), LAMBDA e :
              IF Raised(e, "TypeError") THEN e
              ELSE IF Truthy(e.val) THEN Return(Bool(FALSE), c.kc)
              ELSE AllNormalizedItems(items, i + 1, c.kc)))

\* AllLanguagesIn requiring no language
AllLanguagesIn_Unchecked(normalized_string, language_codes, kc) == Return(Bool(TRUE), kc)

\* all(l in normalized_string for l in language_codes); an unhashable l
\* raises TypeError
AllLanguagesIn(normalized_string, language_codes, kc) ==
    LET bad == {i \in 1..Len(language_codes.l) :
                  \/ ~Hashable(language_codes.l[i])
                  \/ ~HasKey(normalized_string, language_codes.l[i])}
        first == CHOOSE i \in bad : \A j \in bad : i <= j
    IN  IF bad = {} THEN Return(Bool(TRUE), kc)
        ELSE IF ~Hashable(language_codes.l[first]) THEN Raise("TypeError", kc)
        ELSE Return(Bool(FALSE), kc)

is_normalized_string(normalized_string, language_codes, kc) ==
    IF ~ArgTypeOk(normalized_string, {"dict"}) THEN Raise("TypeError", kc)
    ELSE IF ~IsNone(language_codes) /\ ~IsList(language_codes)
    THEN Raise("TypeError", kc)
    ELSE \* normalized_string and (...) and all(...); except TypeError: False
         IF ~Truthy(normalized_string) THEN Return(normalized_string, kc)
         ELSE Bind(IF IsNone(language_codes) THEN Return(Bool(TRUE), kc)
                   ELSE AllLanguagesIn(normalized_string, language_codes, kc),
              LAMBDA l :
                  IF Raised(l, "TypeError") THEN Return(Bool(FALSE), kc)
                  ELSE IF ~Truthy(l.val) THEN Return(Bool(FALSE), kc)
                  ELSE Bind(AllNormalizedItems(normalized_string.d, 1, kc), LAMBDA a :
                           IF Raised(a, "TypeError")
                           THEN Return(Bool(FALSE), a.kc)
                           ELSE a))

\* is_configuration_string answering False, instead of raising, for a value
\* that is neither a string nor a dictionary
is_configuration_string_Lenient(configuration_string, language_codes, kc) ==
    IF ~ArgTypeOk(configuration_string, {"str", "dict"})
    THEN Return(Bool(FALSE), kc)
    ELSE IF IsStr(configuration_string)
    THEN LET e == is_empty_string(configuration_string, kc)
         IN  Return(Bool(~Truthy(e.val)), kc)
    ELSE is_normalized_string(configuration_string, language_codes, kc)

is_configuration_string(configuration_string, language_codes, kc) ==
    IF ~ArgTypeOk(configuration_string, {"str", "dict"})
    THEN Raise("TypeError", kc)
    ELSE IF IsStr(configuration_string)
    THEN LET e == is_empty_string(configuration_string, kc)
         IN  Return(Bool(~Truthy(e.val)), kc)
    ELSE is_normalized_string(configuration_string, language_codes, kc)

\* The URL pattern of is_url, as Python's re reads it.  In its second
\* alternative "[0-9]{{1,3}}" is a digit, one to three "{" and a "}", and
\* "(...){{3}}" is the group followed by "{{{}": the doubled braces are not
\* repetition counts.
AllIn(s, i, j, cls) == \A n \in i..j : CharAt(s, n) \in cls

\* [^/:]+\.[a-z]{2,10} matches s[i..j]
UrlHostName(s, i, j) ==
    \E d \in (i + 1)..(j - 2) :
        /\ \A n \in i..(d - 1) : CharAt(s, n) \notin {"/", ":"}
        /\ CharAt(s, d) = "."
        /\ j - d <= 10
        /\ AllIn(s, d + 1, j, Lower)

\* [0-9]{{1,3}} matches s[i..j]
UrlBracedDigit(s, i, j) ==
    /\ j - i \in 2..4
    /\ CharAt(s, i) \in Digit
    /\ AllIn(s, i + 1, j - 1, {"{"})
    /\ CharAt(s, j) = "}"

\* ([0-9]{{1,3}}\.){{3}}[0-9]{{1,3}} matches s[i..j]
UrlHostBraces(s, i, j) ==
    \E a \in i..j, b \in i..j :
        /\ UrlBracedDigit(s, i, a)
        /\ Slice(s, a + 1, a + 5) = ".{{{}"
        /\ b = a + 6
        /\ UrlBracedDigit(s, b, j)

\* (:[0-9]+)?(\/.*)?$ matches s[i..Len(s)]
UrlTail(s, i) ==
    \E p \in i..(Len(s) + 1) :
        /\ \/ p = i
           \/ p >= i + 2 /\ CharAt(s, i) = ":" /\ AllIn(s, i + 1, p - 1, Digit)
        /\ LET end == IF Len(s) >= p /\ CharAt(s, Len(s)) = "\n"
                      THEN Len(s) - 1 ELSE Len(s)
           IN  \/ p = Len(s) + 1
               \/ p = end + 1
               \/ /\ CharAt(s, p) = "/"
                  /\ \/ \A n \in (p + 1)..Len(s) : CharAt(s, n) # "\n"
                     \/ \A n \in (p + 1)..end : CharAt(s, n) # "\n"

UrlMatches(s) ==
    \E a \in 1..Len(s), j \in 1..Len(s) :
        /\ AllIn(s, 1, a, Lower)
        /\ Slice(s, a + 1, a + 3) = "://"
        /\ UrlHostName(s, a + 4, j) \/ UrlHostBraces(s, a + 4, j)
        /\ UrlTail(s, j + 1)

is_url(url, kc) ==
    LET e == is_empty_string(url, kc) IN
    IF Raised(e, "TypeError") THEN e
    ELSE IF Truthy(e.val) THEN Return(Bool(FALSE), kc)
    ELSE IF UrlMatches(url.s) THEN Return([t |-> "match"], kc)
    ELSE Return(None, kc)

\* [k for k in dictionary.keys() if k not in expected_keys]
find_unexpected_keys(dictionary, expected_keys) ==
    SelectSeq(Keys(dictionary), LAMBDA k : k \notin expected_keys)

-----------------------------------------------------------------------------
(* src/src/question.py *)

\* Iterating a frozenset of three names visits them in an order the build
\* fixes (the hash order); hashOrder is that order, as a permutation of 1..3.
Permutations3 == {p \in [1..3 -> 1..3] : \A i, j \in 1..3 : p[i] = p[j] => i = j}
Iterate3(names) == [i \in 1..3 |-> names[hashOrder[i]]]
Iterate2(names) == IF hashOrder[1] < hashOrder[2] THEN names ELSE <<names[2], names[1]>>

\* Iterating a set built at run time visits its elements in hash order too:
\* the elements of seq, rearranged as hashOrder rearranges their positions.
HashBefore(i, j) ==
    LET a == hashOrder[((i - 1) % 3) + 1]
        b == hashOrder[((j - 1) % 3) + 1]
    IN  a < b \/ (a = b /\ i < j)
HashOrdered(seq) ==
    [k \in 1..Len(seq) |->
        seq[CHOOSE i \in 1..Len(seq) :
                Cardinality({j \in 1..Len(seq) : HashBefore(j, i)}) = k - 1]]

Valid(kc) == Return(Pair(TRUE, None), kc)
Invalid(message, kc) == Return(Pair(FALSE, Str(message)), kc)

\* "{}".format(v)
Format(v) ==
    CASE v.t = "str" -> v.s
      [] v.t = "int" -> ToString(v.n)
      [] v.t = "bool" -> IF v.b THEN "True" ELSE "False"
      [] OTHER -> "None"

\* "', '".join(names): TypeError unless every item is a string
JoinNames(names, template1, template2, kc) ==
    IF \E i \in 1..Len(names) : ~IsStr(names[i]) THEN Raise("TypeError", kc)
    ELSE Invalid(template1 \o Join("', '", [i \in 1..Len(names) |-> names[i].s])
                           \o template2, kc)

\* [k for k in required if k not in d]
Missing(d, required) == SelectSeq(required, LAMBDA k : ~HasKey(d, Str(k)))

\* MissingOrNone without its test for None
MissingOrNone_NoNull(d, required) == Missing(d, required)

\* [k for k in required if k not in d or d[k] is None]
MissingOrNone(d, required) ==
    SelectSeq(required, LAMBDA k : ~HasKey(d, Str(k)) \/ IsNone(Get(d, Str(k))))

AsStrs(names) == [i \in 1..Len(names) |-> Str(names[i])]

KeyChars == Lower \cup Upper \cup Digit \cup {"-", "_"}

\* MatchKey reading only the first character of the key
MatchKey_FirstCharacter(s) == IF CharAt(s, 1) \in KeyChars THEN Str(s) ELSE None

\* re.match("[a-zA-Z0-9-_]+", key): the match's group(), or None
MatchKey(s) ==
    LET n == GreedyRun(s, 1, KeyChars, Len(s))
    IN  IF n >= 1 THEN Str(Slice(s, 1, n)) ELSE None

__is_key(key, kc) ==
    LET e == is_empty_string(key, kc) IN
    IF Raised(e, "TypeError") THEN e
    ELSE IF Truthy(e.val) THEN Return(Bool(FALSE), kc)
    ELSE LET matches == MatchKey(key.s) IN
         IF IsNone(matches) THEN Return(None, kc)
         ELSE Return(Bool(matches.s = key.s), kc)

is_question_key(key, kc) ==
    LET r == __is_key(key, kc) IN
    IF Raised(r, "TypeError") THEN r
    ELSE IF ~Truthy(r.val) \/ CharAt(key.s, 1) = "_"
    THEN Invalid("A question key must be a non-empty string strictly composed of alphanumeric characters (a-z, A-Z, 0-9), hyphens (-) or underscores (_). It must never begin with an underscore.", kc)
    ELSE Valid(kc)

is_reserved_key(key, kc) ==
    LET r == __is_key(key, kc) IN
    IF Raised(r, "TypeError") THEN r
    ELSE IF ~Truthy(r.val) \/ CharAt(key.s, 1) # "_"
    THEN Invalid("A reserved key must be a non-empty string strictly composed of alphanumeric characters (a-z, A-Z, 0-9), hyphens (-) or underscores (_). It must always begin with an underscore.", kc)
    ELSE Valid(kc)

is_question_title(question_title, languages, kc) ==
    Bind(is_configuration_string(question_title, languages, kc), LAMBDA r :
    IF ~Returned(r) THEN r
    ELSE IF ~Truthy(r.val)
    THEN Invalid("A question title must be a non-empty or normalized string.", r.kc)
    ELSE Valid(r.kc))

is_question_help(question_help, languages, kc) ==
    Bind(is_configuration_string(question_help, languages, kc), LAMBDA r :
    IF ~Returned(r) THEN r
    ELSE IF ~Truthy(r.val)
    THEN Invalid("A question help field must be a non-empty or normalized string.", r.kc)
    ELSE Valid(r.kc))

\* AnyBranchKeyInvalid finding every key valid
AnyBranchKeyInvalid_None(items, i, kc) == Return(Bool(FALSE), kc)

\* any(not __is_key(key) for key in question_branch.itervalues()), from item
\* i on: any() stops at the first key that is not valid
RECURSIVE AnyBranchKeyInvalid(_, _, _)
AnyBranchKeyInvalid(items, i, kc) ==
    IF i > Len(items) THEN Return(Bool(FALSE), kc)
    ELSE LET r == __is_key(items[i][2], kc) IN
         IF Raised(r, "TypeError") THEN r
         ELSE IF ~Truthy(r.val) THEN Return(Bool(TRUE), kc)
         ELSE AnyBranchKeyInvalid(items, i + 1, kc)

is_question_branch(question_branch, kc) ==
    IF ~ArgTypeOk(question_branch, {"str", "dict"}) THEN Raise("TypeError", kc)
    ELSE IF IsStr(question_branch)
    THEN LET r == __is_key(question_branch, kc) IN
         IF ~Truthy(r.val)
         THEN Invalid("A question branch string must be a valid key, reserved or otherwise.", kc)
         ELSE Valid(kc)
    ELSE IF Truthy(question_branch)
    THEN LET a == AnyBranchKeyInvalid(question_branch.d, 1, kc) IN
         IF Raised(a, "TypeError") THEN a
         ELSE IF Truthy(a.val)
         THEN Invalid("A question branch string must be a valid key, reserved or otherwise.", kc)
         ELSE Valid(kc)
    ELSE Invalid("A question branch dictionary must contain at least one answer-key pair.", kc)

INPUT_TYPES == {"polar", "dropdown-list", "multiple-option", "text", "number",
                "datetime", "url", "geotagging"}

\* is_question_input_type catching the TypeError of is_empty_string
is_question_input_type_Caught(input_type, kc) ==
    LET e == is_empty_string(input_type, kc) IN
    IF Raised(e, "TypeError") THEN Invalid("An input type must be a non-empty string.", kc)
    ELSE IF Truthy(e.val) THEN Invalid("An input type must be a non-empty string.", kc)
    ELSE IF input_type.s \notin INPUT_TYPES
    THEN Invalid("The input type '" \o input_type.s \o "' is not recognized.", kc)
    ELSE Valid(kc)

is_question_input_type(input_type, kc) ==
    LET e == is_empty_string(input_type, kc) IN
    IF Raised(e, "TypeError") THEN e
    ELSE IF Truthy(e.val) THEN Invalid("An input type must be a non-empty string.", kc)
    ELSE IF input_type.s \notin INPUT_TYPES
    THEN Invalid("The input type '" \o input_type.s \o "' is not recognized.", kc)
    ELSE Valid(kc)

__is_polar_input(question_input, languages, kc) == Valid(kc)

__is_dropdown_list_input(question_input, languages, kc) == Raise("NotImplementedError", kc)

OPTION_FLAGS == <<"enable-multiple-choices", "enable-other-option", "enable-illustrations">>

ILLUSTRATION_FIELDS == <<"image", "page", "attribution">>

\* The illustration of one option: None when it is accepted, else the outcome.
\* illustration.keys() raises AttributeError unless illustration is a dict.
IllustrationOutcome(illustration, kc) ==
    IF ~IsDict(illustration) THEN Raise("AttributeError", kc)
    ELSE LET fields == {ILLUSTRATION_FIELDS[i] : i \in 1..3}
             missing == SelectSeq(Keys(illustration),
                            LAMBDA k : \/ ~IsStr(k)
                                       \/ k.s \notin fields
                                       \/ IsNone(Get(illustration, k)))
             order == Iterate3(ILLUSTRATION_FIELDS)
             bad == {i \in 1..3 :
                        LET e == is_empty_string(Get(illustration, Str(order[i])), kc)
                        IN  ~Returned(e) \/ Truthy(e.val)}
             first == CHOOSE i \in bad : \A j \in bad : i <= j
         IN  IF missing # <<>>
             THEN JoinNames(missing, "The illustration is missing the following fields: '", "'.", kc)
             ELSE IF bad = {} THEN None
             ELSE IF Returned(is_empty_string(Get(illustration, Str(order[first])), kc))
             THEN Invalid("An illustration's '" \o order[first] \o "' field must be a non-empty string.", kc)
             ELSE Invalid("An illustration's '" \o order[first] \o "' field must be a string.", kc)

\* for option in options, from option i on.  option.get raises AttributeError
\* unless option is a dict.
RECURSIVE OptionsOutcome(_, _, _, _, _)
OptionsOutcome(options, i, enable_illustrations, languages, kc) ==
    IF i > Len(options) THEN Valid(kc)
    ELSE LET option == options[i] IN
         IF ~IsDict(option) THEN Raise("AttributeError", kc)
         ELSE LET label == Get(option, Str("label"))
                  value == Get(option, Str("value"))
                  illustration == IF Truthy(enable_illustrations)
                                  THEN Get(option, Str("illustration")) ELSE None
              IN  IF IsNone(label)
                  THEN Invalid("An option label must be a non-empty or normalized string.", kc)
                  ELSE Bind(is_configuration_string(label, languages, kc), LAMBDA l :
                  IF ~Returned(l) \/ ~Truthy(l.val)
                  THEN Invalid("An option label must be a non-empty or normalized string.", l.kc)
                  ELSE IF IsNone(value) \/ ~IsStr(value)
                  THEN Invalid("An option value must be a string.", l.kc)
                  ELSE IF IsNone(illustration)
                  THEN OptionsOutcome(options, i + 1, enable_illustrations, languages, l.kc)
                  ELSE Bind(IllustrationOutcome(illustration, l.kc), LAMBDA ill :
                       IF ill = None
                       THEN OptionsOutcome(options, i + 1, enable_illustrations, languages, l.kc)
                       ELSE ill))

__is_multiple_option_input(question_input, languages, kc) ==
    LET badflags == {i \in 1..3 :
                        LET field == Get(question_input, Str(OPTION_FLAGS[i]))
                        IN  ~IsNone(field) /\ ~IsBool(field)}
        firstflag == CHOOSE i \in badflags : \A j \in badflags : i <= j
        options == Get(question_input, Str("options"))
        \* question_input.get("enable-illustrations", False)
        enable_illustrations ==
            IF HasKey(question_input, Str("enable-illustrations"))
            THEN Get(question_input, Str("enable-illustrations")) ELSE Bool(FALSE)
    IN  IF badflags # {}
        THEN Invalid("The '" \o OPTION_FLAGS[firstflag] \o "' field must be a boolean value.", kc)
        ELSE IF IsNone(options)
        THEN Invalid("The 'options' field must be a non-empty list.", kc)
        ELSE IF ~IsList(options) \/ Len(options.l) < 1
        THEN Invalid("The 'options' field must be a non-empty list.", kc)
        ELSE OptionsOutcome(options.l, 1, enable_illustrations, languages, kc)

__is_text_input(question_input, languages, kc) ==
    LET placeholder == Get(question_input, Str("placeholder"))
        enable_long_text == Get(question_input, Str("enable-long-text"))
        min_length == Get(question_input, Str("min-length"))
        max_length == Get(question_input, Str("max-length"))
    IN  Bind(IF IsNone(placeholder) THEN Return(Bool(TRUE), kc)
             ELSE is_configuration_string(placeholder, languages, kc), LAMBDA p :
        Bind(p.kc, LAMBDA kc1 :
        IF ~Returned(p) \/ ~Truthy(p.val)
        THEN Invalid("A placeholder must be a non-empty or normalized string.", kc1)
        ELSE IF ~IsNone(enable_long_text) /\ ~IsBool(enable_long_text)
        THEN Invalid("The 'enable-long-text' field must be a boolean value.", kc1)
        ELSE IF ~IsNone(min_length) /\ ~IsInt(min_length)
        THEN Invalid("The 'min-length' field must be an integer value.", kc1)
        ELSE IF ~IsNone(min_length) /\ IntOf(min_length) < 0
        THEN Invalid("The 'min-length' must be a positive integer.", kc1)
        ELSE IF ~IsNone(max_length) /\ ~IsInt(max_length)
        THEN Invalid("The 'max-length' field must be an integer value.", kc1)
        ELSE IF ~IsNone(max_length) /\ IntOf(max_length) < 0
        THEN Invalid("The 'min-length' must be a positive integer.", kc1)
        ELSE IF ~IsNone(max_length) /\ ~IsNone(min_length)
                /\ IntOf(max_length) < IntOf(min_length)
        THEN Invalid("The 'max-length' must be greater than or equal to the 'min-length'.", kc1)
        ELSE Valid(kc1)))

__is_number_input(question_input, languages, kc) == Raise("NotImplementedError", kc)

__is_datetime_input(question_input, languages, kc) == Raise("NotImplementedError", kc)

__is_url_input(question_input, languages, kc) == Raise("NotImplementedError", kc)

__is_geotagging_input(question_input, languages, kc) ==
    LET location == Get(question_input, Str("location"))
        e == is_empty_string(location, kc)
    IN  IF ~IsNone(location) /\ (Raised(e, "TypeError") \/ Truthy(e.val))
        THEN Invalid("A geotagging input's 'location' field must be a non-empty string.", kc)
        ELSE Valid(kc)

INPUT_REQUIRED_FIELDS == <<"type">>

\* is_question_input.EXPECTED_FIELDS
EXPECTED_FIELDS(input_type) ==
    CASE input_type = "polar" -> {"type"}
      [] input_type = "dropdown-list" -> {"options", "prompt", "size"}
      [] input_type = "multiple-option" ->
            {"options", "enable-multiple-choices", "enable-other-option",
             "enable-illustrations", "size"}
      [] input_type = "text" ->
            {"enable-long-text", "min-length", "max-length", "placeholder"}
      [] input_type = "number" -> {"min-value", "max-value", "placeholder"}
      [] input_type = "datetime" ->
            {"date-format", "time-format", "from", "to", "disable-date", "disable-time"}
      [] input_type = "url" -> {"max-length", "domain", "placeholder"}
      [] input_type = "geotagging" -> {"location"}

\* VALIDATORS with the text validator in the place of the number validator
VALIDATORS_NumberAsText(input_type, question_input, languages, kc) ==
    CASE input_type = "polar" -> __is_polar_input(question_input, languages, kc)
      [] input_type = "dropdown-list" -> __is_dropdown_list_input(question_input, languages, kc)
      [] input_type = "multiple-option" -> __is_multiple_option_input(question_input, languages, kc)
      [] input_type = "text" -> __is_text_input(question_input, languages, kc)
      [] input_type = "number" -> __is_text_input(question_input, languages, kc)
      [] input_type = "datetime" -> __is_datetime_input(question_input, languages, kc)
      [] input_type = "url" -> __is_url_input(question_input, languages, kc)
      [] input_type = "geotagging" -> __is_geotagging_input(question_input, languages, kc)

\* is_question_input.VALIDATORS
VALIDATORS(input_type, question_input, languages, kc) ==
    CASE input_type = "polar" -> __is_polar_input(question_input, languages, kc)
      [] input_type = "dropdown-list" -> __is_dropdown_list_input(question_input, languages, kc)
      [] input_type = "multiple-option" -> __is_multiple_option_input(question_input, languages, kc)
      [] input_type = "text" -> __is_text_input(question_input, languages, kc)
      [] input_type = "number" -> __is_number_input(question_input, languages, kc)
      [] input_type = "datetime" -> __is_datetime_input(question_input, languages, kc)
      [] input_type = "url" -> __is_url_input(question_input, languages, kc)
      [] input_type = "geotagging" -> __is_geotagging_input(question_input, languages, kc)

\* is_question_input without its search for unexpected fields
UnexpectedFields_Unchecked(question_input, input_type) == <<>>

\* set(question_input.keys()) - REQUIRED_FIELDS - expected_fields, listed in
\* the order iterating the set visits them
UnexpectedFields(question_input, input_type) ==
    HashOrdered(SelectSeq(Keys(question_input),
        LAMBDA k : ~(IsStr(k) /\ k.s \in {"type"} \cup EXPECTED_FIELDS(input_type))))

is_question_input(question_input, languages, kc) ==
    IF ~ArgTypeOk(question_input, {"dict"}) THEN Raise("TypeError", kc)
    ELSE IF ~ArgTypeOk(languages, {"list", "none"}) THEN Raise("TypeError", kc)
    ELSE LET missing_fields == MissingOrNone(question_input, INPUT_REQUIRED_FIELDS)
             input_type == Get(question_input, Str("type"))
             t == is_question_input_type(input_type, kc)
             unexpected_fields == UnexpectedFields(question_input, input_type.s)
         IN  IF missing_fields # <<>>
             THEN JoinNames(AsStrs(missing_fields),
                      "The question input configuration is missing the following fields: '", "'.", kc)
             ELSE IF ~ReturnedValid(t) THEN t
             ELSE IF unexpected_fields # <<>>
             THEN JoinNames(unexpected_fields,
                      "A " \o input_type.s \o " configuration contains the following unexpected fields: '", "'.", kc)
             ELSE VALIDATORS(input_type.s, question_input, languages, kc)

QUESTION_REQUIRED_FIELDS == <<"key", "title", "input">>

\* the validators table of is_question
QuestionValidator(key, configuration, available_languages, kc) ==
    CASE key = "key" -> is_question_key(configuration, kc)
      [] key = "title" -> is_question_title(configuration, available_languages, kc)
      [] key = "hint" -> is_question_help(configuration, available_languages, kc)
      [] key = "help" -> is_question_help(configuration, available_languages, kc)
      [] key = "input" -> is_question_input(configuration, available_languages, kc)
      [] key = "branch" -> is_question_branch(configuration, kc)

QUESTION_FIELDS == {"key", "title", "hint", "help", "input", "branch"}

\* for key, configuration in question.iteritems(), from item i on
RECURSIVE QuestionItems(_, _, _, _)
QuestionItems(items, i, available_languages, kc) ==
    IF i > Len(items) THEN Valid(kc)
    ELSE LET key == items[i][1] IN
         IF ~(IsStr(key) /\ key.s \in QUESTION_FIELDS)
         THEN Invalid("The question configuration key '" \o Format(key) \o "' is not recognized.", kc)
         ELSE Bind(QuestionValidator(key.s, items[i][2], available_languages, kc), LAMBDA r :
              IF ~ReturnedValid(r) THEN r
              ELSE QuestionItems(items, i + 1, available_languages, r.kc))

is_question(question, available_languages, kc) ==
    IF ~ArgTypeOk(question, {"dict"}) THEN Raise("TypeError", kc)
    ELSE IF ~ArgTypeOk(available_languages, {"list", "none"}) THEN Raise("TypeError", kc)
    ELSE LET missing == MissingOrNone(question, Iterate3(QUESTION_REQUIRED_FIELDS)) IN
         IF missing # <<>>
         THEN JoinNames(AsStrs(missing),
                  "The question configuration is missing the following fields: '", "'.", kc)
         ELSE QuestionItems(question.d, 1, available_languages, kc)

-----------------------------------------------------------------------------
(* src/src/project.py *)

is_project_name(name, kc) ==
    LET e == is_empty_string(name, kc) IN
    IF Raised(e, "TypeError") THEN Invalid("The 'name' argument must be a string.", kc)
    ELSE IF Truthy(e.val) THEN Invalid("A project name must be a non-empty string.", kc)
    ELSE Valid(kc)

SHORT_NAME_ERROR_MESSAGE == "A short name must be a non-empty string containing only of alphanumeric characters (a-z, A-Z, 0-9), hyphens (-) and underscores (_)."

is_project_short_name(short_name, kc) ==
    LET e == is_empty_string(short_name, kc) IN
    IF Raised(e, "TypeError") THEN Invalid("The 'short_name' argument must be a string.", kc)
    ELSE IF Truthy(e.val) THEN Invalid(SHORT_NAME_ERROR_MESSAGE, kc)
    ELSE LET matches == MatchKey(short_name.s) IN
         IF ~IsNone(matches) /\ matches.s = short_name.s THEN Valid(kc)
         ELSE Invalid(SHORT_NAME_ERROR_MESSAGE, kc)

is_project_description(description, kc) ==
    LET e == is_empty_string(description, kc) IN
    IF Raised(e, "TypeError") THEN Invalid("The 'description' argument must be a string.", kc)
    ELSE IF Truthy(e.val) THEN Invalid("A project description must be a non-empty string.", kc)
    ELSE Valid(kc)

is_project_repository(url, kc) ==
    IF ~IsStr(url) THEN Invalid("A repository URL must be a string.", kc)
    ELSE IF ~Truthy(is_url(url, kc).val)
    THEN Invalid("A repository configuration must be a valid URL and include the URL protocol.", kc)
    ELSE Valid(kc)

is_project_do_not_track(do_not_track, kc) ==
    IF IsBool(do_not_track) THEN Valid(kc)
    ELSE Invalid("The 'do_not_track' argument must be a boolean.", kc)

PROJECT_REQUIRED_FIELDS == <<"name", "short_name", "description">>

PROJECT_FIELDS == {"name", "short_name", "description", "repository", "do_not_track"}

\* the validators table of is_project_configuration
ProjectValidator(key, configuration, kc) ==
    CASE key = "name" -> is_project_name(configuration, kc)
      [] key = "short_name" -> is_project_short_name(configuration, kc)
      [] key = "description" -> is_project_description(configuration, kc)
      [] key = "repository" -> is_project_repository(configuration, kc)
      [] key = "do_not_track" -> is_project_do_not_track(configuration, kc)

\* for key, configuration in configuration.iteritems(), from item i on
RECURSIVE ProjectItems(_, _, _)
ProjectItems(items, i, kc) ==
    IF i > Len(items) THEN Valid(kc)
    ELSE LET key == items[i][1] IN
         IF ~(IsStr(key) /\ key.s \in PROJECT_FIELDS)
         THEN Invalid("The project configuration key '" \o Format(key) \o "' is not recognized.", kc)
         ELSE Bind(ProjectValidator(key.s, items[i][2], kc), LAMBDA r :
              IF ~ReturnedValid(r) THEN r
              ELSE ProjectItems(items, i + 1, r.kc))

is_project_configuration(configuration, enable_logging, kc) ==
    IF ~IsDict(configuration) THEN Raise("TypeError", kc)
    ELSE IF ~IsBool(enable_logging) THEN Raise("TypeError", kc)
    ELSE IF Missing(configuration, PROJECT_REQUIRED_FIELDS) # <<>>
    THEN Raise("ValueError", kc)
    ELSE ProjectItems(configuration.d, 1, kc)

-----------------------------------------------------------------------------
(* src/src/task_presenter.py *)

LANGUAGE_REQUIRED_FIELDS == <<"default", "available">>

\* InvalidLanguageCodes finding no invalid code
InvalidLanguageCodes_None(available, i, kc) == Return(List(<<>>), kc)

\* [l for l in available_languages if not is_language_code(l)], from element
\* i on, with the cache the calls leave: val is the list
RECURSIVE InvalidLanguageCodes(_, _, _)
InvalidLanguageCodes(available, i, kc) ==
    IF i > Len(available) THEN Return(List(<<>>), kc)
    ELSE Bind(is_language_code(available[i], kc), LAMBDA c :
         Bind(InvalidLanguageCodes(available, i + 1, c.kc), LAMBDA rest :
             IF Truthy(c.val) THEN rest
             ELSE Return(List(<<available[i]>> \o rest.val.l), rest.kc)))

is_task_presenter_language(language, kc) ==
    IF ~ArgTypeOk(language, {"dict"}) THEN Raise("TypeError", kc)
    ELSE LET missing == Missing(language, Iterate2(LANGUAGE_REQUIRED_FIELDS))
             available_languages == Get(language, Str("available"))
             default_language == Get(language, Str("default"))
         IN  IF missing # <<>>
             THEN JoinNames(AsStrs(missing),
                      "The task presenter's language configuration is missing the following fields: '", "'.", kc)
             ELSE IF ~IsList(available_languages) \/ Len(available_languages.l) < 1
             THEN Invalid("The list of available languages must be a non-empty list of language codes.", kc)
             ELSE Bind(InvalidLanguageCodes(available_languages.l, 1, kc),
                       LAMBDA invalid_language_codes :
             IF invalid_language_codes.val.l # <<>>
             THEN JoinNames(invalid_language_codes.val.l,
                      "The task presenter's list of available languages contains the following invalid codes: '",
                      "'.", invalid_language_codes.kc)
             ELSE IF \A i \in 1..Len(available_languages.l) :
                        available_languages.l[i] # default_language
             THEN Invalid("The task presenter's default language '" \o Format(default_language)
                          \o "' is not listed as an available language.", invalid_language_codes.kc)
             ELSE Valid(invalid_language_codes.kc))

SUPPORTED_TYPES == {"image", "pdf"}

is_subject_type(subject_type, kc) ==
    LET e == is_empty_string(subject_type, kc) IN
    IF Raised(e, "TypeError") THEN e
    ELSE IF Truthy(e.val) THEN Invalid("A subject type must be a non-empty string.", kc)
    ELSE IF subject_type.s \notin SUPPORTED_TYPES
    THEN Invalid("The subject type '" \o subject_type.s \o "' is not recognized.", kc)
    ELSE Valid(kc)

SUBJECT_REQUIRED_FIELDS == <<"type">>

\* for key, configuration in subject.iteritems(), from item i on
RECURSIVE SubjectItems(_, _, _)
SubjectItems(items, i, kc) ==
    IF i > Len(items) THEN Valid(kc)
    ELSE LET key == items[i][1] IN
         IF key # Str("type")
         THEN Invalid("The task presenter subject configuration key '" \o Format(key)
                      \o "' is not recognized.", kc)
         ELSE Bind(is_subject_type(items[i][2], kc), LAMBDA r :
              IF ~ReturnedValid(r) THEN r
              ELSE SubjectItems(items, i + 1, r.kc))

is_task_presenter_subject(subject, kc) ==
    IF ~ArgTypeOk(subject, {"dict"}) THEN Raise("TypeError", kc)
    ELSE LET missing == Missing(subject, SUBJECT_REQUIRED_FIELDS) IN
         IF missing # <<>>
         THEN JoinNames(AsStrs(missing),
                  "The task presenter's subject configuration is missing the following fields: '", "'.", kc)
         ELSE SubjectItems(subject.d, 1, kc)

\* for q in questions, from question i on
RECURSIVE Questions(_, _, _, _)
Questions(questions, i, languages, kc) ==
    IF i > Len(questions) THEN Valid(kc)
    ELSE Bind(is_question(questions[i], languages, kc), LAMBDA r :
         IF ~ReturnedValid(r) THEN r
         ELSE Questions(questions, i + 1, languages, r.kc))

is_task_presenter_questionnaire(questionnaire, languages, kc) ==
    IF ~ArgTypeOk(questionnaire, {"dict"}) THEN Raise("TypeError", kc)
    ELSE IF ~ArgTypeOk(languages, {"list", "none"}) THEN Raise("TypeError", kc)
    ELSE LET missing == Missing(questionnaire, <<"questions">>)
             questions == Get(questionnaire, Str("questions"))
         IN  IF missing # <<>>
             THEN JoinNames(AsStrs(missing),
                      "The task presenter's questionnaire configuration is missing the following fields: '", "'.", kc)
             ELSE IF ~IsList(questions) \/ Len(questions.l) < 1
             THEN Invalid("A questionnaire must have a non-empty list of questions.", kc)
             ELSE Questions(questions.l, 1, languages, kc)

TASK_PRESENTER_REQUIRED_FIELDS == <<"questionnaire">>

TASK_PRESENTER_FIELDS == {"language", "subject", "questionnaire"}

\* the validators table of is_task_presenter_configuration; each validator is
\* called with the field's value alone
TaskPresenterValidator(key, configuration, kc) ==
    CASE key = "language" -> is_task_presenter_language(configuration, kc)
      [] key = "subject" -> is_task_presenter_subject(configuration, kc)
      [] key = "questionnaire" -> is_task_presenter_questionnaire(configuration, None, kc)

\* for key, configuration in configuration.iteritems(), from item i on
RECURSIVE TaskPresenterItems(_, _, _)
TaskPresenterItems(items, i, kc) ==
    IF i > Len(items) THEN Valid(kc)
    ELSE LET key == items[i][1] IN
         IF ~(IsStr(key) /\ key.s \in TASK_PRESENTER_FIELDS)
         THEN Invalid("The task presenter configuration key '" \o Format(key)
                      \o "' is not recognized.", kc)
         ELSE Bind(TaskPresenterValidator(key.s, items[i][2], kc), LAMBDA r :
              IF ~ReturnedValid(r) THEN r
              ELSE TaskPresenterItems(items, i + 1, r.kc))

\* [k for k in REQUIRED_FIELDS if k not in configuration]
TaskPresenterMissing(configuration) ==
    Missing(configuration, TASK_PRESENTER_REQUIRED_FIELDS)

is_task_presenter_configuration(configuration, enable_logging, kc) ==
    IF ~ArgTypeOk(configuration, {"dict"}) THEN Raise("TypeError", kc)
    ELSE IF ~ArgTypeOk(enable_logging, {"bool"}) THEN Raise("TypeError", kc)
    ELSE LET missing == TaskPresenterMissing(configuration) IN
         IF missing # <<>>
         THEN JoinNames(AsStrs(missing),
                  "The task presenter configuration is missing the following fields: '", "'.", kc)
         ELSE TaskPresenterItems(configuration.d, 1, kc)

-----------------------------------------------------------------------------
(* src/src/tutorial.py *)

is_tutorial_enable_random_order(enable_random_order, kc) ==
    IF IsBool(enable_random_order) THEN Valid(kc)
    ELSE Invalid("The 'enable-random-order' argument must be a boolean.", kc)

DEFAULT_MESSAGE_FIELDS == {"on-wrong-answer", "on-correct-answer"}

\* for key, message in default_message.iteritems(), from item i on
RECURSIVE DefaultMessageItems(_, _, _, _)
DefaultMessageItems(items, i, languages, kc) ==
    IF i > Len(items) THEN Valid(kc)
    ELSE Bind(is_configuration_string(items[i][2], languages, kc), LAMBDA r :
         IF ~Returned(r) THEN r
         ELSE IF ~Truthy(r.val)
         THEN Invalid("The tutorial's default message field '" \o Format(items[i][1])
                      \o "' is invalid. A message must be a non-empty or normalized string.", r.kc)
         ELSE DefaultMessageItems(items, i + 1, languages, r.kc))

is_tutorial_default_message(default_message, languages, kc) ==
    IF ~ArgTypeOk(default_message, {"dict"}) THEN Raise("TypeError", kc)
    ELSE IF ~ArgTypeOk(languages, {"list", "none"}) THEN Raise("TypeError", kc)
    ELSE LET unexpected_keys ==
                 find_unexpected_keys(default_message,
                                      {Str(f) : f \in DEFAULT_MESSAGE_FIELDS})
         IN  IF unexpected_keys # <<>>
             THEN JoinNames(unexpected_keys,
                      "The tutorial's 'default-message' contains the following unrecognized fields: '", "'.", kc)
             ELSE DefaultMessageItems(default_message.d, 1, languages, kc)

is_tutorial_subject_source(tutorial_subject_source, kc) ==
    LET e == is_empty_string(tutorial_subject_source, kc) IN
    IF Raised(e, "TypeError") THEN e
    ELSE IF Truthy(e.val)
    THEN Invalid("A tutorial subject's 'source' field must be a non-empty string.", kc)
    ELSE Valid(kc)

is_tutorial_subject_page(tutorial_subject_page, kc) ==
    LET e == is_empty_string(tutorial_subject_page, kc) IN
    IF Raised(e, "TypeError") THEN e
    ELSE IF Truthy(e.val)
    THEN Invalid("A tutorial subject's 'page' field must be a non-empty string.", kc)
    ELSE Valid(kc)

\* The function raises NotImplementedError before its return statement.
is_tutorial_subject_assertion(tutorial_subject_assertion, languages, kc) ==
    IF ~ArgTypeOk(tutorial_subject_assertion, {"dict"}) THEN Raise("TypeError", kc)
    ELSE IF ~ArgTypeOk(languages, {"list", "none"}) THEN Raise("TypeError", kc)
    ELSE Raise("NotImplementedError", kc)

\* for key, assertion in tutorial_subject_assertions.iteritems(), from item i on
RECURSIVE AssertionItems(_, _, _, _)
AssertionItems(items, i, languages, kc) ==
    IF i > Len(items) THEN Valid(kc)
    ELSE LET k == is_question_key(items[i][1], kc) IN
         IF ~ReturnedValid(k) THEN k
         ELSE Bind(is_tutorial_subject_assertion(items[i][2], languages, kc), LAMBDA r :
              IF ~ReturnedValid(r) THEN r
              ELSE AssertionItems(items, i + 1, languages, r.kc))

__is_tutorial_subject_assertions(tutorial_subject_assertions, languages, kc) ==
    IF ~ArgTypeOk(tutorial_subject_assertions, {"dict"}) THEN Raise("TypeError", kc)
    ELSE IF ~ArgTypeOk(languages, {"list", "none"}) THEN Raise("TypeError", kc)
    ELSE AssertionItems(tutorial_subject_assertions.d, 1, languages, kc)

TUTORIAL_SUBJECT_REQUIRED_FIELDS == <<"source", "page", "assertions">>

TUTORIAL_SUBJECT_FIELDS == {"source", "page", "assertions"}

\* the validators table of is_tutorial_subject
TutorialSubjectValidator(key, field, languages, kc) ==
    CASE key = "source" -> is_tutorial_subject_source(field, kc)
      [] key = "page" -> is_tutorial_subject_page(field, kc)
      [] key = "assertions" -> __is_tutorial_subject_assertions(field, languages, kc)

\* for key, field in tutorial_subject.iteritems(), from item i on
RECURSIVE TutorialSubjectItems(_, _, _, _)
TutorialSubjectItems(items, i, languages, kc) ==
    IF i > Len(items) THEN Valid(kc)
    ELSE LET key == items[i][1] IN
         IF ~(IsStr(key) /\ key.s \in TUTORIAL_SUBJECT_FIELDS)
         THEN Invalid("The field '" \o Format(key)
                      \o "' is not a recognized tutorial subject field.", kc)
         ELSE Bind(TutorialSubjectValidator(key.s, items[i][2], languages, kc), LAMBDA r :
              IF ~ReturnedValid(r) THEN r
              ELSE TutorialSubjectItems(items, i + 1, languages, r.kc))

is_tutorial_subject(tutorial_subject, languages, kc) ==
    IF ~ArgTypeOk(tutorial_subject, {"dict"}) THEN Raise("TypeError", kc)
    ELSE IF ~ArgTypeOk(languages, {"list", "none"}) THEN Raise("TypeError", kc)
    ELSE LET missing == Missing(tutorial_subject, Iterate3(TUTORIAL_SUBJECT_REQUIRED_FIELDS)) IN
         IF missing # <<>>
         THEN JoinNames(AsStrs(missing),
                  "A tutorial's subject configuration is missing the following fields: '", "'.", kc)
         ELSE TutorialSubjectItems(tutorial_subject.d, 1, languages, kc)

\* for s in tutorial_subjects, from subject i on
RECURSIVE TutorialSubjects(_, _, _, _)
TutorialSubjects(subjects, i, languages, kc) ==
    IF i > Len(subjects) THEN Valid(kc)
    ELSE Bind(is_tutorial_subject(subjects[i], languages, kc), LAMBDA r :
         IF ~ReturnedValid(r) THEN r
         ELSE TutorialSubjects(subjects, i + 1, languages, r.kc))

__is_tutorial_subjects(tutorial_subjects, languages, kc) ==
    IF ~ArgTypeOk(tutorial_subjects, {"list"}) THEN Raise("TypeError", kc)
    ELSE IF ~ArgTypeOk(languages, {"list", "none"}) THEN Raise("TypeError", kc)
    ELSE IF ~Truthy(tutorial_subjects)
    THEN Invalid("A project tutorial must contain one or more subjects.", kc)
    ELSE TutorialSubjects(tutorial_subjects.l, 1, languages, kc)

TUTORIAL_REQUIRED_FIELDS == <<"subjects">>

TUTORIAL_FIELDS == {"enable-random-order", "default-message", "subjects"}

\* the validators table of is_tutorial_configuration
TutorialValidator(key, configuration, available_languages, kc) ==
    CASE key = "enable-random-order" -> is_tutorial_enable_random_order(configuration, kc)
      [] key = "default-message" ->
            is_tutorial_default_message(configuration, available_languages, kc)
      [] key = "subjects" -> __is_tutorial_subjects(configuration, available_languages, kc)

\* for key, configuration in tutorial_configuration.iteritems(), from item i on
RECURSIVE TutorialItems(_, _, _, _)
TutorialItems(items, i, available_languages, kc) ==
    IF i > Len(items) THEN Valid(kc)
    ELSE LET key == items[i][1] IN
         IF ~(IsStr(key) /\ key.s \in TUTORIAL_FIELDS)
         THEN Invalid("The tutorial configuration key '" \o Format(key)
                      \o "' is not recognized.", kc)
         ELSE Bind(TutorialValidator(key.s, items[i][2], available_languages, kc), LAMBDA r :
              IF ~ReturnedValid(r) THEN r
              ELSE TutorialItems(items, i + 1, available_languages, r.kc))

\* task_presenter_configuration["language"]["available"] if "language" in
\* task_presenter_configuration else None: the outcome of the expression.
\* Subscripting a value that is no dict with a string raises TypeError, and a
\* dict without the key raises KeyError.
AvailableLanguages(task_presenter_configuration, kc) ==
    LET language == Get(task_presenter_configuration, Str("language")) IN
    IF ~HasKey(task_presenter_configuration, Str("language")) THEN Return(None, kc)
    ELSE IF ~IsDict(language) THEN Raise("TypeError", kc)
    ELSE IF ~HasKey(language, Str("available")) THEN Raise("KeyError", kc)
    ELSE Return(Get(language, Str("available")), kc)

is_tutorial_configuration(tutorial_configuration, task_presenter_configuration, enable_logging, validate_task_presenter_configuration, kc) ==
    IF ~ArgTypeOk(tutorial_configuration, {"dict"}) THEN Raise("TypeError", kc)
    ELSE IF ~ArgTypeOk(task_presenter_configuration, {"dict"}) THEN Raise("TypeError", kc)
    ELSE IF ~ArgTypeOk(enable_logging, {"bool"}) THEN Raise("TypeError", kc)
    ELSE IF ~ArgTypeOk(validate_task_presenter_configuration, {"bool"})
    THEN Raise("TypeError", kc)
    ELSE Bind(IF validate_task_presenter_configuration.b
              THEN is_task_presenter_configuration(task_presenter_configuration,
                                                   Bool(FALSE), kc)
              ELSE Valid(kc), LAMBDA tp :
         LET missing == Missing(tutorial_configuration, TUTORIAL_REQUIRED_FIELDS) IN
         IF ~ReturnedValid(tp) THEN tp
         ELSE IF missing # <<>>
         THEN JoinNames(AsStrs(missing),
                  "The tutorial configuration is missing the following fields: '", "'.", tp.kc)
         ELSE Bind(AvailableLanguages(task_presenter_configuration, tp.kc),
                   LAMBDA available_languages :
              IF ~Returned(available_languages) THEN available_languages
              ELSE TutorialItems(tutorial_configuration.d, 1, available_languages.val, tp.kc)))

-----------------------------------------------------------------------------
(* src/src/core.py *)

\* is_nonempty_dictionary without its test of the length
is_nonempty_dictionary_AnyLength(d) == IsDict(d)

\* is_nonempty_dictionary = lambda d: isinstance(d, dict) and len(d) > 0
is_nonempty_dictionary(d) == IsDict(d) /\ Len(d.d) > 0

CONFIGURATION_KEYS == {"project", "task_presenter", "tutorial"}

\* the validators table of is_configuration_set
ConfigurationValidator(key, configuration, configurations, enable_logging, kc) ==
    CASE key = "project" -> is_project_configuration(configuration, enable_logging, kc)
      [] key = "task_presenter" ->
            is_task_presenter_configuration(configuration, enable_logging, kc)
      [] key = "tutorial" ->
            is_tutorial_configuration(configuration,
                                      Get(configurations, Str("task_presenter")),
                                      enable_logging, Bool(FALSE), kc)

\* for key, configuration in configurations.iteritems(), from item i on;
\* validators[key] raises KeyError for a key that is not in the table
RECURSIVE ConfigurationItems(_, _, _, _)
ConfigurationItems(configurations, i, enable_logging, kc) ==
    LET items == configurations.d IN
    IF i > Len(items) THEN Valid(kc)
    ELSE LET key == items[i][1] IN
         IF ~(IsStr(key) /\ key.s \in CONFIGURATION_KEYS) THEN Raise("KeyError", kc)
         ELSE Bind(ConfigurationValidator(key.s, items[i][2], configurations,
                                              enable_logging, kc), LAMBDA r :
              IF ~ReturnedValid(r) THEN r
              ELSE ConfigurationItems(configurations, i + 1, enable_logging, r.kc))

is_configuration_set(configurations, enable_logging, kc) ==
    IF ~ArgTypeOk(configurations, {"dict"}) THEN Raise("TypeError", kc)
    ELSE IF ~ArgTypeOk(enable_logging, {"bool"}) THEN Raise("TypeError", kc)
    ELSE IF \E k \in {"project", "task_presenter"} :
               ~is_nonempty_dictionary(Get(configurations, Str(k)))
    THEN Raise("ValueError", kc)
    ELSE ConfigurationItems(configurations, 1, enable_logging, kc)

-----------------------------------------------------------------------------
(* The documents and values the validators are called with *)

\* the largest number of fields of a generated document
MaxFields == 4
\* the largest number of fields of a generated question input
MaxInputFields == 3

\* The dicts of at most n items drawn from pool, a set of (key, value) items,
\* in every iteration order; no key occurs twice in a dict.
RECURSIVE ItemSeqs(_, _)
ItemSeqs(pool, n) ==
    IF n = 0 THEN {<<>>}
    ELSE LET shorter == ItemSeqs(pool, n - 1)
             longest == {d \in shorter : Len(d) = n - 1}
         IN  shorter \cup
             {e \in {Append(d, it) : d \in longest, it \in pool} :
                 \A i \in 1..(n - 1) : e[i][1] # e[n][1]}

Dicts(pool, n) == {Dict(d) : d \in ItemSeqs(pool, n)}

Field(name, values) == {<<Str(name), v>> : v \in values}

PolarInput == Dict(<< <<Str("type"), Str("polar")>> >>)

ProjectPool ==
    Field("name", {Str("Demo"), Str("  ")})
    \cup Field("short_name", {Str("demo")})
    \cup Field("description", {Str("A demo.")})
    \cup Field("repository", {Str("https://github.com/demo.git"), Str("github.com/demo")})
    \cup Field("do_not_track", {Bool(TRUE)})
    \cup Field("unknown_key", {Num(42)})

ProjectDocuments == Dicts(ProjectPool, MaxFields)

QuestionPool ==
    Field("key", {Str("ready"), Str("_end"), None})
    \cup Field("title", {Str("Are you ready?"), None})
    \cup Field("input", {PolarInput, None})
    \cup Field("hint", {Str("Look closely."), List(<<>>)})
    \cup Field("hintr", {Str("This field's key has a typo!")})

QuestionDocuments == Dicts(QuestionPool, MaxFields)

InputPool ==
    Field("type", {Str("polar"), Str("text"), Str("geotagging"), Str("dropdown-list"),
                   Str("number"), Str("datetime"), Str("url"), Str("xyz"), None})
    \cup Field("placeholder", {Str("Type here")})
    \cup Field("max-length", {Num(3)})
    \cup Field("options", {List(<<>>)})
    \cup Field("from", {Str("today")})
    \cup Field("location", {Str("Geneva")})

InputDocuments == Dicts(InputPool, MaxInputFields)

\* values of every type, for the arguments whose type is checked
Values ==
    {None, Num(42), Bool(TRUE), List(<<>>), Dict(<<>>), Str(""), Str("ready"),
     Str("_end"), Str("polar"),
     Dict(<< <<Str("la"), Str("Et tu, Brute?")>> >>)}

Languages == {None, List(<<>>), List(<<Str("la")>>), Num(42), Dict(<<>>)}

\* the largest number of entries of a generated configuration set
MaxSetEntries == 3

ValidQuestion ==
    Dict(<< <<Str("key"), Str("ready")>>, <<Str("title"), Str("Are you ready?")>>,
            <<Str("input"), PolarInput>> >>)
Questionnaire(questions) == Dict(<< <<Str("questions"), List(questions)>> >>)
Language(default, available) ==
    Dict(<< <<Str("default"), Str(default)>>, <<Str("available"), List(available)>> >>)

TaskPresenterPool ==
    Field("questionnaire", {Questionnaire(<<ValidQuestion>>), Questionnaire(<<>>), None})
    \cup Field("language", {Language("en", <<Str("en")>>), Language("fr", <<Str("en")>>)})
    \cup Field("subject", {Dict(<< <<Str("type"), Str("image")>> >>),
                           Dict(<< <<Str("type"), Str("video")>> >>)})
    \cup Field("questionaire", {Questionnaire(<<ValidQuestion>>)})
TaskPresenterDocuments == Dicts(TaskPresenterPool, MaxFields)

\* the questions whose title, hint or help may be no configuration string
ArgumentQuestionPool ==
    Field("key", {Str("ready")})
    \cup Field("title", {Str("Are you ready?"), Num(42)})
    \cup Field("input", {PolarInput})
    \cup Field("hint", {Str("Look closely."), List(<<>>)})
    \cup Field("help", {Bool(TRUE)})
ArgumentQuestions == Dicts(ArgumentQuestionPool, MaxFields)

ValidProject ==
    Dict(<< <<Str("name"), Str("Demo")>>, <<Str("short_name"), Str("demo")>>,
            <<Str("description"), Str("A demo.")>> >>)
UnnamedProject ==
    Dict(<< <<Str("name"), Str("  ")>>, <<Str("short_name"), Str("demo")>>,
            <<Str("description"), Str("A demo.")>> >>)
ValidTaskPresenter ==
    Dict(<< <<Str("questionnaire"), Questionnaire(<<ValidQuestion>>)>> >>)
SpokenTaskPresenter ==
    Dict(<< <<Str("language"), Language("en", <<Str("en")>>)>>,
            <<Str("questionnaire"), Questionnaire(<<ValidQuestion>>)>> >>)
TutorialSubject(assertions) ==
    Dict(<< <<Str("source"), Str("demo.jpg")>>, <<Str("page"), Str("1")>>,
            <<Str("assertions"), Dict(assertions)>> >>)
Tutorial(subjects) == Dict(<< <<Str("subjects"), List(subjects)>> >>)

ConfigurationPool ==
    Field("project", {ValidProject, UnnamedProject,
                      Dict(<< <<Str("name"), Str("Demo")>> >>), Dict(<<>>), None})
    \cup Field("task_presenter",
               {ValidTaskPresenter, SpokenTaskPresenter,
                Dict(<< <<Str("questionnaire"), Questionnaire(<<>>)>> >>),
                Dict(<< <<Str("questionnaire"), None>> >>),
                Dict(<<>>), List(<<>>)})
    \cup Field("tutorial",
               {Tutorial(<<TutorialSubject(<<>>)>>), Tutorial(<<>>),
                Tutorial(<<TutorialSubject(<< <<Str("ready"), Dict(<<>>)>> >>)>>)})
    \cup Field("questions", {Dict(<<>>)})
ConfigurationSets == Dicts(ConfigurationPool, MaxSetEntries)

NoCall == [k |-> "none", val |-> None, exc |-> "", kc |-> {}]

\* the largest number of threads that call is_language_code at once
MaxThreads == 2

\* a thread that is in no call
NoFrame == [pc |-> "idle", code |-> None, valid |-> None, result |-> None]

Init ==
    /\ KNOWN_LANGUAGE_CODES = {}
    /\ hashOrder \in Permutations3
    /\ fn = ""
    /\ args = <<>>
    /\ out = NoCall
    /\ visited = <<>>
    /\ threads = [thread \in 1..MaxThreads |-> NoFrame]

\* No call is in progress.
Idle == fn = ""

\* One call of a validator, from the caller's point of view: the call is made
\* with the cache as it is, and its outcome and the cache it leaves are recorded.
Call(name, arguments, outcome) ==
    /\ fn' = name
    /\ args' = arguments
    /\ out' = outcome
    /\ KNOWN_LANGUAGE_CODES' = outcome.kc
    /\ UNCHANGED <<hashOrder, visited, threads>>

\* The caller has the result; the validators keep nothing of the call but the cache.
Done ==
    /\ fn # ""
    /\ fn' = ""
    /\ args' = <<>>
    /\ out' = NoCall
    /\ UNCHANGED <<KNOWN_LANGUAGE_CODES, hashOrder, visited, threads>>

Call_is_project_configuration(configurations) ==
    /\ Idle
    /\ \E configuration \in configurations :
        Call("is_project_configuration", <<configuration, Bool(FALSE)>>,
             is_project_configuration(configuration, Bool(FALSE), KNOWN_LANGUAGE_CODES))

Call_is_question(questions, languages) ==
    /\ Idle
    /\ \E question \in questions, available_languages \in languages :
        Call("is_question", <<question, available_languages>>,
             is_question(question, available_languages, KNOWN_LANGUAGE_CODES))

Call_is_question_input(question_inputs, available_languages) ==
    /\ Idle
    /\ \E question_input \in question_inputs, languages \in available_languages :
        Call("is_question_input", <<question_input, languages>>,
             is_question_input(question_input, languages, KNOWN_LANGUAGE_CODES))

Call_is_task_presenter_configuration(configurations) ==
    /\ Idle
    /\ \E configuration \in configurations :
        Call("is_task_presenter_configuration", <<configuration, Bool(FALSE)>>,
             is_task_presenter_configuration(configuration, Bool(FALSE), KNOWN_LANGUAGE_CODES))

Call_is_configuration_set ==
    /\ Idle
    /\ \E configurations \in ConfigurationSets :
        Call("is_configuration_set", <<configurations, Bool(FALSE)>>,
             is_configuration_set(configurations, Bool(FALSE), KNOWN_LANGUAGE_CODES))

Call_is_configuration_string(configuration_strings, languages) ==
    /\ Idle
    /\ \E configuration_string \in configuration_strings, language_codes \in languages :
        Call("is_configuration_string", <<configuration_string, language_codes>>,
             is_configuration_string(configuration_string, language_codes,
                                     KNOWN_LANGUAGE_CODES))

Call_is_question_title ==
    /\ Idle
    /\ \E question_title \in Values, languages \in Languages :
        Call("is_question_title", <<question_title, languages>>,
             is_question_title(question_title, languages, KNOWN_LANGUAGE_CODES))

Call_is_question_help ==
    /\ Idle
    /\ \E question_help \in Values, languages \in Languages :
        Call("is_question_help", <<question_help, languages>>,
             is_question_help(question_help, languages, KNOWN_LANGUAGE_CODES))

Call_is_question_key(keys) ==
    /\ Idle
    /\ \E key \in keys :
        Call("is_question_key", <<key>>, is_question_key(key, KNOWN_LANGUAGE_CODES))

Call_is_reserved_key(keys) ==
    /\ Idle
    /\ \E key \in keys :
        Call("is_reserved_key", <<key>>, is_reserved_key(key, KNOWN_LANGUAGE_CODES))

Call_is_question_input_type ==
    /\ Idle
    /\ \E input_type \in Values :
        Call("is_question_input_type", <<input_type>>,
             is_question_input_type(input_type, KNOWN_LANGUAGE_CODES))

\* the three document validators, called with generated documents
NextDocuments ==
    \/ Call_is_project_configuration(ProjectDocuments)
    \/ Call_is_question(QuestionDocuments, {None})
    \/ Call_is_question_input(InputDocuments, {None})
    \/ Done

SpecDocuments == Init /\ [][NextDocuments]_vars

\* the validators called with arguments of every type
NextArguments ==
    \/ Call_is_project_configuration(Values)
    \/ Call_is_question(Values \cup ArgumentQuestions, Languages)
    \/ Call_is_question_input(Values, Languages)
    \/ Call_is_configuration_string(Values, Languages)
    \/ Call_is_question_title
    \/ Call_is_question_help
    \/ Call_is_question_key(Values)
    \/ Call_is_reserved_key(Values)
    \/ Call_is_question_input_type
    \/ Done

SpecArguments == Init /\ [][NextArguments]_vars

NextTaskPresenter ==
    \/ Call_is_task_presenter_configuration(TaskPresenterDocuments)
    \/ Done

SpecTaskPresenter == Init /\ [][NextTaskPresenter]_vars

NextSet ==
    \/ Call_is_configuration_set
    \/ Done

SpecSet == Init /\ [][NextSet]_vars

-----------------------------------------------------------------------------
(* Properties of the document validators *)

\* the message names the field, as the messages quote field names
Names(message, field) == Contains(message.s, "'" \o field \o "'")

\* the field is absent from the document, or null in it
NullOrAbsent(document, field) ==
    ~HasKey(document, Str(field)) \/ IsNone(Get(document, Str(field)))

\* the positions of the document's fields that are not among the declared
Undeclared(document, declared) ==
    {i \in 1..Len(document.d) :
        ~(IsStr(document.d[i][1]) /\ document.d[i][1].s \in declared)}

FirstOf(positions) == CHOOSE i \in positions : \A j \in positions : i <= j

\* the question input declares one of the eight recognized types
DeclaresType(question_input) ==
    /\ IsDict(question_input)
    /\ HasKey(question_input, Str("type"))
    /\ IsStr(Get(question_input, Str("type")))
    /\ Get(question_input, Str("type")).s \in INPUT_TYPES

AllowList(question_input) ==
    {"type"} \cup EXPECTED_FIELDS(Get(question_input, Str("type")).s)

\* C3, as the specification states it: a project document, a question document
\* or a question input that contains a field its schema does not declare is
\* answered (False, message), and the message names an undeclared field.
C3_UndeclaredFieldIsNamed ==
    /\ (fn = "is_project_configuration" /\ IsDict(args[1])
            /\ Undeclared(args[1], PROJECT_FIELDS) # {})
        => /\ ReturnedInvalid(out)
           /\ \E i \in Undeclared(args[1], PROJECT_FIELDS) :
                  Names(out.val.message, args[1].d[i][1].s)
    /\ (fn = "is_question" /\ IsDict(args[1])
            /\ Undeclared(args[1], QUESTION_FIELDS) # {})
        => /\ ReturnedInvalid(out)
           /\ \E i \in Undeclared(args[1], QUESTION_FIELDS) :
                  Names(out.val.message, args[1].d[i][1].s)
    /\ (fn = "is_question_input" /\ DeclaresType(args[1])
            /\ Undeclared(args[1], AllowList(args[1])) # {})
        => /\ ReturnedInvalid(out)
           /\ \E i \in Undeclared(args[1], AllowList(args[1])) :
                  Names(out.val.message, args[1].d[i][1].s)

\* C3, amended: a document with an undeclared field is never answered
\* (True, None).  A project document with its three required fields, and a
\* question document whose three required fields are present and not null, is
\* answered (False, message) with a message that names the first undeclared
\* field met, when every field met before it is valid.  A question input of a
\* recognized type is answered (False, message) with a message that names
\* every undeclared field.
C3_UndeclaredFieldIsRejected ==
    /\ (fn = "is_project_configuration" /\ IsDict(args[1])
            /\ Undeclared(args[1], PROJECT_FIELDS) # {})
        => /\ ~ReturnedValid(out)
           /\ LET first == FirstOf(Undeclared(args[1], PROJECT_FIELDS)) IN
              ( /\ \A f \in {"name", "short_name", "description"} : HasKey(args[1], Str(f))
                /\ \A j \in 1..(first - 1) :
                       ReturnedValid(ProjectValidator(args[1].d[j][1].s, args[1].d[j][2],
                                                      KNOWN_LANGUAGE_CODES)) )
              => /\ ReturnedInvalid(out)
                 /\ Names(out.val.message, args[1].d[first][1].s)
    /\ (fn = "is_question" /\ IsDict(args[1]) /\ ArgTypeOk(args[2], {"list", "none"})
            /\ Undeclared(args[1], QUESTION_FIELDS) # {})
        => /\ ~ReturnedValid(out)
           /\ LET first == FirstOf(Undeclared(args[1], QUESTION_FIELDS)) IN
              ( /\ \A f \in {"key", "title", "input"} : ~NullOrAbsent(args[1], f)
                /\ \A j \in 1..(first - 1) :
                       ReturnedValid(QuestionValidator(args[1].d[j][1].s, args[1].d[j][2],
                                                       args[2], KNOWN_LANGUAGE_CODES)) )
              => /\ ReturnedInvalid(out)
                 /\ Names(out.val.message, args[1].d[first][1].s)
    /\ (fn = "is_question_input" /\ DeclaresType(args[1])
            /\ ArgTypeOk(args[2], {"list", "none"})
            /\ Undeclared(args[1], AllowList(args[1])) # {})
        => /\ ReturnedInvalid(out)
           /\ \A i \in Undeclared(args[1], AllowList(args[1])) :
                  Names(out.val.message, args[1].d[i][1].s)

\* a question whose fourth field, after three valid ones, is the misspelt
\* "hintr" has been rejected with a message that names it
C3_Witness ==
    /\ fn = "is_question"
    /\ args[1] = Dict(<< <<Str("key"), Str("ready")>>,
                         <<Str("title"), Str("Are you ready?")>>,
                         <<Str("input"), PolarInput>>,
                         <<Str("hintr"), Str("This field's key has a typo!")>> >>)
    /\ out.val = Pair(FALSE, Str("The question configuration key 'hintr' is not recognized."))

\* C4: is_question, given a question in which any of key, title and input
\* is absent or null, returns (False, message); the message names each of
\* those fields and no other field.
C4_MissingRequiredFieldsAreListed ==
    (fn = "is_question" /\ IsDict(args[1]) /\ ArgTypeOk(args[2], {"list", "none"})
        /\ \E f \in {"key", "title", "input"} : NullOrAbsent(args[1], f))
    => /\ ReturnedInvalid(out)
       /\ Contains(out.val.message.s, "is missing the following fields")
       /\ \A f \in QUESTION_FIELDS \cup {k.s : k \in KeySet(args[1])} :
              Names(out.val.message, f)
                  <=> (f \in {"key", "title", "input"} /\ NullOrAbsent(args[1], f))

\* a question with a null title and no input has been rejected for the two of them
C4_Witness ==
    /\ fn = "is_question"
    /\ args[1] = Dict(<< <<Str("title"), None>>, <<Str("key"), Str("ready")>> >>)
    /\ ReturnedInvalid(out)
    /\ Names(out.val.message, "title")
    /\ Names(out.val.message, "input")
    /\ ~Names(out.val.message, "key")

\* C5, as the specification states it: is_project_configuration, given a
\* mapping that lacks name, short_name or description, returns a pair whose
\* first element is False.
C5_MissingProjectFieldIsReported ==
    (fn = "is_project_configuration" /\ IsDict(args[1])
        /\ \E f \in {"name", "short_name", "description"} : ~HasKey(args[1], Str(f)))
    => ReturnedPair(out) /\ ~out.val.valid

\* C10: is_question_input raises NotImplementedError for an input of type
\* dropdown-list, number, datetime or url whose other fields are all in the
\* type's allow-list.
C10_UnimplementedInputTypesRaise ==
    (fn = "is_question_input" /\ DeclaresType(args[1])
        /\ ArgTypeOk(args[2], {"list", "none"})
        /\ Get(args[1], Str("type")).s \in {"dropdown-list", "number", "datetime", "url"}
        /\ Undeclared(args[1], AllowList(args[1])) = {})
    => Raised(out, "NotImplementedError")

\* a number input with a placeholder has raised NotImplementedError
C10_Witness ==
    /\ fn = "is_question_input"
    /\ args[1] = Dict(<< <<Str("type"), Str("number")>>,
                         <<Str("placeholder"), Str("Type here")>> >>)
    /\ Raised(out, "NotImplementedError")

-----------------------------------------------------------------------------
(* Properties of the task presenter validator and of the configuration set *)

\* C6, as the specification states it: a task presenter whose questionnaire
\* is present and null is answered as one without a questionnaire, with
\* (False, message) where the message reports questionnaire as missing.
C6_NullQuestionnaireIsMissing ==
    (fn = "is_task_presenter_configuration" /\ IsDict(args[1])
        /\ HasKey(args[1], Str("questionnaire"))
        /\ IsNone(Get(args[1], Str("questionnaire"))))
    => out.val = Pair(FALSE, Str("The task presenter configuration is missing the following fields: 'questionnaire'."))

\* the entry of the set is absent, is no mapping, or is an empty mapping
NoDocument(configurations, key) ==
    \/ ~HasKey(configurations, Str(key))
    \/ ~IsDict(Get(configurations, Str(key)))
    \/ Len(Get(configurations, Str(key)).d) = 0

\* the sets C1 and C2 speak of
WellFormedSet(configurations) ==
    /\ IsDict(configurations)
    /\ \A k \in KeySet(configurations) : IsStr(k) /\ k.s \in CONFIGURATION_KEYS
    /\ ~NoDocument(configurations, "project")
    /\ ~NoDocument(configurations, "task_presenter")

\* what the member's own validator answers
Member(configurations, key) ==
    CASE key = "project" ->
            is_project_configuration(Get(configurations, Str(key)), Bool(FALSE),
                                     KNOWN_LANGUAGE_CODES)
      [] key = "task_presenter" ->
            is_task_presenter_configuration(Get(configurations, Str(key)), Bool(FALSE),
                                            KNOWN_LANGUAGE_CODES)
      [] key = "tutorial" ->
            is_tutorial_configuration(Get(configurations, Str(key)),
                                      Get(configurations, Str("task_presenter")),
                                      Bool(FALSE), Bool(FALSE), KNOWN_LANGUAGE_CODES)

Members(configurations) == {k.s : k \in KeySet(configurations)}

\* C1, as the specification states it: for a set of non-empty project and
\* task presenter documents and at most a tutorial, is_configuration_set
\* returns (True, None) if and only if every member is valid under its own
\* validator, and otherwise (False, message) with the message of a member
\* that is not valid.
C1_SetIsValidIffMembersAre ==
    (fn = "is_configuration_set" /\ WellFormedSet(args[1]))
    => IF \A k \in Members(args[1]) : ReturnedValid(Member(args[1], k))
       THEN ReturnedValid(out)
       ELSE /\ ReturnedInvalid(out)
            /\ \E k \in Members(args[1]) :
                   /\ ReturnedInvalid(Member(args[1], k))
                   /\ out.val = Member(args[1], k).val

\* C2, as the specification states it: whenever the project of a set is
\* invalid, is_configuration_set returns the project's message, whatever the
\* other members are and in whatever order the set holds its keys.
C2_ProjectIsReportedFirst ==
    (fn = "is_configuration_set" /\ WellFormedSet(args[1])
        /\ ReturnedInvalid(Member(args[1], "project")))
    => out.val = Member(args[1], "project").val

\* C7: is_configuration_set raises ValueError whenever the project or the
\* task presenter of the set is absent, is no mapping or is an empty mapping;
\* a set of a valid project and a valid task presenter without tutorial is
\* accepted.
C7_RequiredDocumentsOrValueError ==
    (fn = "is_configuration_set" /\ IsDict(args[1]))
    => /\ (NoDocument(args[1], "project") \/ NoDocument(args[1], "task_presenter"))
              => Raised(out, "ValueError")
       /\ ( /\ Members(args[1]) = {"project", "task_presenter"}
            /\ WellFormedSet(args[1])
            /\ ReturnedValid(Member(args[1], "project"))
            /\ ReturnedValid(Member(args[1], "task_presenter")) )
              => ReturnedValid(out)

\* a set whose task presenter is an empty mapping, met after a valid project,
\* has raised ValueError
C7_Witness ==
    /\ fn = "is_configuration_set"
    /\ args[1] = Dict(<< <<Str("project"), ValidProject>>,
                         <<Str("task_presenter"), Dict(<<>>)>> >>)
    /\ Raised(out, "ValueError")

-----------------------------------------------------------------------------
(* Properties of the arguments *)

\* an integer, a boolean or a list: neither a string nor a mapping
NoConfigurationString(v) == v.t \in {"int", "bool", "list"}

\* the positions of the question's title, hint and help fields whose value
\* is an integer, a boolean or a list
NoStrings(question) ==
    {i \in 1..Len(question.d) :
        /\ question.d[i][1] \in {Str("title"), Str("hint"), Str("help")}
        /\ NoConfigurationString(question.d[i][2])}

\* C8, as the specification states it: is_configuration_string reports an
\* integer, a boolean or a list as invalid, and is_question given one as
\* title, hint or help returns (False, message).
C8_WrongStringIsReported ==
    /\ (fn = "is_configuration_string" /\ NoConfigurationString(args[1]))
        => Returned(out) /\ ~Truthy(out.val)
    /\ (fn = "is_question" /\ IsDict(args[1]) /\ NoStrings(args[1]) # {})
        => ReturnedInvalid(out)

\* C8, amended: is_configuration_string raises TypeError for an integer, a
\* boolean or a list.  is_question never accepts a question with such a
\* title, hint or help, and raises TypeError when it meets the field: when
\* the languages are a list or None, key, title and input are present and
\* not null, and every field met before it is valid.
C8_WrongStringRaisesTypeError ==
    /\ (fn = "is_configuration_string" /\ NoConfigurationString(args[1]))
        => Raised(out, "TypeError")
    /\ (fn = "is_question" /\ IsDict(args[1]) /\ NoStrings(args[1]) # {})
        => /\ ~ReturnedValid(out)
           /\ LET first == FirstOf(NoStrings(args[1])) IN
              ( /\ ArgTypeOk(args[2], {"list", "none"})
                /\ \A f \in {"key", "title", "input"} : ~NullOrAbsent(args[1], f)
                /\ \A j \in 1..(first - 1) :
                       /\ args[1].d[j][1].s \in QUESTION_FIELDS
                       /\ ReturnedValid(QuestionValidator(args[1].d[j][1].s, args[1].d[j][2],
                                                          args[2], KNOWN_LANGUAGE_CODES)) )
              => Raised(out, "TypeError")

\* a question whose hint is a list, met after three valid fields, has raised
\* TypeError
C8_Witness ==
    /\ fn = "is_question"
    /\ args[1] = Dict(<< <<Str("key"), Str("ready")>>,
                         <<Str("title"), Str("Are you ready?")>>,
                         <<Str("input"), PolarInput>>,
                         <<Str("hint"), List(<<>>)>> >>)
    /\ args[2] = None
    /\ Raised(out, "TypeError")

\* C9: a wrong argument raises TypeError.  is_question, is_question_input
\* and is_project_configuration raise it for a document that is no mapping;
\* is_question_title and is_question_help for a value that is neither a
\* string nor a mapping, and for a mapping with languages that are neither a
\* list nor None; is_question_key, is_reserved_key and
\* is_question_input_type for an argument that is no string.
C9_WrongArgumentRaisesTypeError ==
    /\ (fn \in {"is_question", "is_question_input", "is_project_configuration"}
            /\ ~IsDict(args[1]))
        => Raised(out, "TypeError")
    /\ (fn \in {"is_question_title", "is_question_help"}
            /\ \/ ~IsStr(args[1]) /\ ~IsDict(args[1])
               \/ IsDict(args[1]) /\ ~IsList(args[2]) /\ ~IsNone(args[2]))
        => Raised(out, "TypeError")
    /\ (fn \in {"is_question_key", "is_reserved_key", "is_question_input_type"}
            /\ ~IsStr(args[1]))
        => Raised(out, "TypeError")

\* is_question_title has raised TypeError for a title in Latin with the
\* integer 42 as its languages
C9_Witness ==
    /\ fn = "is_question_title"
    /\ args[1] = Dict(<< <<Str("la"), Str("Et tu, Brute?")>> >>)
    /\ args[2] = Num(42)
    /\ Raised(out, "TypeError")

-----------------------------------------------------------------------------
(* The languages of a task presenter *)

English == Str("Are you ready?")
French == Str("Etes-vous pret ?")
InEnglish == Dict(<< <<Str("en"), English>> >>)
InBoth == Dict(<< <<Str("en"), English>>, <<Str("fr"), French>> >>)

\* text inputs whose placeholder is localizable
TextInput(placeholder) ==
    Dict(<< <<Str("type"), Str("text")>>, <<Str("placeholder"), placeholder>> >>)

\* questions whose title, hint and placeholder are plain or per-language
LocalizedQuestions ==
    {Dict(<< <<Str("key"), Str("ready")>>, <<Str("title"), title>>,
             <<Str("input"), input>> >> \o hint) :
        title \in {English, InEnglish, InBoth},
        input \in {PolarInput, TextInput(InEnglish)},
        hint \in {<<>>, << <<Str("hint"), InEnglish>> >>}}

LocalizedTaskPresenterPool ==
    Field("language", {Language("en", <<Str("en"), Str("fr")>>),
                       Language("en", <<Str("en")>>)})
    \cup Field("questionnaire", {Questionnaire(<<q>>) : q \in LocalizedQuestions})
LocalizedTaskPresenters == Dicts(LocalizedTaskPresenterPool, MaxFields)

LanguagePool ==
    Field("default", {Str("en"), Str("fr")})
    \cup Field("available",
               {List(<<Str("en")>>), List(<<Str("en"), Str("fr")>>), List(<<>>),
                List(<<Str("EN")>>), List(<<Str("fr"), Num(42)>>), Str("en")})
    \cup Field("fallback", {Str("en")})
LanguageDocuments == Dicts(LanguagePool, MaxFields)

Call_is_task_presenter_language ==
    /\ Idle
    /\ \E language \in LanguageDocuments :
        Call("is_task_presenter_language", <<language>>,
             is_task_presenter_language(language, KNOWN_LANGUAGE_CODES))

NextLanguages ==
    \/ Call_is_task_presenter_configuration(LocalizedTaskPresenters)
    \/ Call_is_task_presenter_language
    \/ Done

SpecLanguages == Init /\ [][NextLanguages]_vars

\* the items of a list, as a set
Items(list) == {list.l[i] : i \in 1..Len(list.l)}

\* s has the shape of a language tag: two or three lowercase letters, and
\* then nothing, or a hyphen and two uppercase letters, or a hyphen, an
\* uppercase letter and three lowercase letters
TagShape(s) ==
    \E n \in {2, 3} :
        /\ Len(s) >= n
        /\ \A i \in 1..n : CharAt(s, i) \in Lower
        /\ \/ Len(s) = n
           \/ /\ Len(s) = n + 3
              /\ CharAt(s, n + 1) = "-"
              /\ \A i \in (n + 2)..(n + 3) : CharAt(s, i) \in Upper
           \/ /\ Len(s) = n + 5
              /\ CharAt(s, n + 1) = "-"
              /\ CharAt(s, n + 2) \in Upper
              /\ \A i \in (n + 3)..(n + 5) : CharAt(s, i) \in Lower

\* the questions of a task presenter whose questionnaire lists some
QuestionsOf(configuration) ==
    LET questionnaire == Get(configuration, Str("questionnaire"))
    IN  IF IsDict(questionnaire) /\ IsList(Get(questionnaire, Str("questions")))
        THEN Items(Get(questionnaire, Str("questions"))) ELSE {}

\* the question's title is a per-language mapping without some tag of available
TitleLacksLanguage(question, available) ==
    /\ IsDict(question)
    /\ IsDict(Get(question, Str("title")))
    /\ \E l \in Items(available) : ~HasKey(Get(question, Str("title")), l)

\* C11, as the specification states it: when the task presenter declares
\* language.available = L, a question whose title is a per-language mapping
\* that lacks some tag of L makes is_task_presenter_configuration answer
\* (False, message).
C11_TitleIsCheckedAgainstAvailable ==
    (fn = "is_task_presenter_configuration"
        /\ HasKey(args[1], Str("language"))
        /\ \E q \in QuestionsOf(args[1]) :
              TitleLacksLanguage(q, Get(Get(args[1], Str("language")), Str("available"))))
    => ReturnedInvalid(out)

\* C12: is_task_presenter_language accepts a language document with the fields
\* default and available exactly when available is a non-empty list, each of
\* its elements is a string with the shape of a language tag, and default is
\* one of its elements; the document with available ["en"] and default
\* "fr" is answered with the message that the default language 'fr' is not
\* listed as an available language.
C12_LanguageIsAcceptedIffListed ==
    (fn = "is_task_presenter_language"
        /\ HasKey(args[1], Str("default")) /\ HasKey(args[1], Str("available")))
    => LET default == Get(args[1], Str("default"))
           available == Get(args[1], Str("available"))
       IN  /\ ReturnedValid(out)
                <=> /\ IsList(available) /\ Len(available.l) >= 1
                    /\ \A l \in Items(available) : IsStr(l) /\ TagShape(l.s)
                    /\ default \in Items(available)
           /\ (available = List(<<Str("en")>>) /\ default = Str("fr"))
                => out.val = Pair(FALSE, Str("The task presenter's default language 'fr' is not listed as an available language."))

\* the language document with available ["en"] and default "fr" has been
\* rejected
C12_Witness ==
    /\ fn = "is_task_presenter_language"
    /\ Get(args[1], Str("available")) = List(<<Str("en")>>)
    /\ Get(args[1], Str("default")) = Str("fr")
    /\ ReturnedInvalid(out)

-----------------------------------------------------------------------------
(* Configuration strings and language codes *)

\* the largest number of entries of a generated per-language mapping
MaxEntries == 2

\* per-language mappings, well-formed or not in a key or in a value
NormalizedStringPool ==
    {<<key, value>> : key \in {Str("en"), Str("fr"), Str("EN"), Num(42)},
                      value \in {Str("Hi"), Str(" "), Num(42)}}

ConfigurationStrings ==
    {Str("Hi"), Str(""), Str(" \t"), Str(" Hi ")} \cup Dicts(NormalizedStringPool, MaxEntries)

RequiredLanguages ==
    {None, List(<<>>), List(<<Str("en")>>), List(<<Str("en"), Str("fr")>>),
     List(<<Str("en"), Dict(<<>>)>>), Num(42)}

LanguageCodes ==
    {Str(s) : s \in {"en", "fr", "haw", "e", "EN", "abcd", "42", "", " ", "en ", " en",
                     "en-US", "zh-Hans", "az-Latin",
                     "az-latn", "en_GB", "en-us", "en-Us", "en-U", "en-USA", "en-",
                     "en-US-x", "-en-GB", "en- GB", "en-HANS", "en\n"}}
    \cup {None, Num(42), Bool(TRUE), Dict(<<>>), List(<<>>)}

Call_is_language_code ==
    /\ Idle
    /\ \E code \in LanguageCodes :
        Call("is_language_code", <<code>>, is_language_code(code, KNOWN_LANGUAGE_CODES))

NextStrings ==
    \/ Call_is_configuration_string(ConfigurationStrings, RequiredLanguages)
    \/ Call_is_language_code
    \/ Done

SpecStrings == Init /\ [][NextStrings]_vars

\* a string with a character that is no whitespace
NonEmptyString(v) == IsStr(v) /\ v.s # "" /\ ~IsSpace(v.s)

\* C13: is_configuration_string(value, required), for required a list or
\* None, returns a true value exactly when value is a string that is neither
\* empty nor whitespace only, or value is a non-empty mapping whose keys all
\* have the shape of a language tag, whose values are all strings neither
\* empty nor whitespace only and, when required is a list, that has every
\* element of required among its keys; for a string, required is ignored
\* whatever it is.
C13_ConfigurationStringHoldsIff ==
    (fn = "is_configuration_string"
        /\ (IsStr(args[1]) \/ (IsDict(args[1]) /\ (IsList(args[2]) \/ IsNone(args[2])))))
    => LET value == args[1]
           required == args[2]
       IN  /\ Returned(out)
           /\ Truthy(out.val)
                <=> \/ NonEmptyString(value)
                    \/ /\ IsDict(value) /\ Len(value.d) >= 1
                       /\ \A i \in 1..Len(value.d) :
                            /\ IsStr(value.d[i][1]) /\ TagShape(value.d[i][1].s)
                            /\ NonEmptyString(value.d[i][2])
                       /\ IsList(required) => \A l \in Items(required) : HasKey(value, l)

\* a mapping with a well-formed English entry only has been refused because
\* French is required too
C13_Witness ==
    /\ fn = "is_configuration_string"
    /\ args[1] = Dict(<< <<Str("en"), Str("Hi")>> >>)
    /\ args[2] = List(<<Str("en"), Str("fr")>>)
    /\ Returned(out) /\ ~Truthy(out.val)

-----------------------------------------------------------------------------
(* Question keys and branches *)

QuestionKeys ==
    {Str(s) : s \in {"ready", "_end", "", " ", "a b", "a-b_1", "_", "-a", "a!", "__x",
                     "9", "Q1", "a_", "_a b", "ready\n"}}

\* branches to one key, and branches that map answers to keys
BranchPool ==
    {<<answer, key>> : answer \in {Str("yes"), Str("not sure!")},
                       key \in {Str("ready"), Str("_end"), Str("a b"), Str(""), Num(42)}}
QuestionBranches ==
    QuestionKeys \cup Dicts(BranchPool, MaxEntries) \cup {None, List(<<Str("ready")>>)}

\* a question that branches, and the question with the key next
BranchingQuestion(branch) ==
    Dict(<< <<Str("key"), Str("ready")>>, <<Str("title"), English>>,
            <<Str("input"), PolarInput>>, <<Str("branch"), branch>> >>)
NextQuestion ==
    Dict(<< <<Str("key"), Str("next")>>, <<Str("title"), English>>,
            <<Str("input"), PolarInput>> >>)

\* questionnaires where the key a question branches to is, or is not, the key
\* of a question
BranchingTaskPresenters ==
    {Dict(<< <<Str("questionnaire"), Questionnaire(<<BranchingQuestion(branch)>> \o others)>> >>) :
        branch \in {Str("next"), Str("nowhere"), Str("a b"),
                    Dict(<< <<Str("yes"), Str("next")>>, <<Str("no"), Str("nowhere")>> >>),
                    Dict(<< <<Str("yes"), Str("next!")>> >>)},
        others \in {<<>>, <<NextQuestion>>}}

Call_is_question_branch ==
    /\ Idle
    /\ \E question_branch \in QuestionBranches :
        Call("is_question_branch", <<question_branch>>,
             is_question_branch(question_branch, KNOWN_LANGUAGE_CODES))

NextKeys ==
    \/ Call_is_question_key(QuestionKeys)
    \/ Call_is_reserved_key(QuestionKeys)
    \/ Call_is_question_branch
    \/ Call_is_task_presenter_configuration(BranchingTaskPresenters)
    \/ Done

SpecKeys == Init /\ [][NextKeys]_vars

\* s is not empty and has only letters, digits, hyphens and underscores
KeyShape(s) ==
    /\ Len(s) >= 1
    /\ \A i \in 1..Len(s) : CharAt(s, i) \in Lower \cup Upper \cup Digit \cup {"-", "_"}

\* C15: for every string k, is_question_key(k) answers (True, None) exactly
\* when k is not empty, has only letters, digits, hyphens and underscores and
\* does not start with an underscore, and is_reserved_key(k) exactly when k
\* has that shape and starts with an underscore; no string is accepted by
\* both, and a string of that shape is accepted by exactly one of them.
C15_KeysAreOrdinaryOrReserved ==
    (fn \in {"is_question_key", "is_reserved_key"} /\ IsStr(args[1]))
    => LET k == args[1].s
           ordinary == is_question_key(args[1], KNOWN_LANGUAGE_CODES)
           reserved == is_reserved_key(args[1], KNOWN_LANGUAGE_CODES)
       IN  /\ out = (IF fn = "is_question_key" THEN ordinary ELSE reserved)
           /\ ReturnedPair(ordinary) /\ ReturnedPair(reserved)
           /\ ReturnedValid(ordinary) <=> (KeyShape(k) /\ CharAt(k, 1) # "_")
           /\ ReturnedValid(reserved) <=> (KeyShape(k) /\ CharAt(k, 1) = "_")
           /\ ~(ReturnedValid(ordinary) /\ ReturnedValid(reserved))
           /\ KeyShape(k) => (ReturnedValid(ordinary) \/ ReturnedValid(reserved))

\* is_reserved_key has refused a key with a space although it starts with an
\* underscore
C15_Witness ==
    /\ fn = "is_reserved_key"
    /\ args[1] = Str("_a b")
    /\ ReturnedInvalid(out)

\* the branch is a well-formed key, or a non-empty mapping to well-formed keys
BranchShape(branch) ==
    \/ IsStr(branch) /\ KeyShape(branch.s)
    \/ /\ IsDict(branch) /\ Len(branch.d) >= 1
       /\ \A i \in 1..Len(branch.d) : IsStr(branch.d[i][2]) /\ KeyShape(branch.d[i][2].s)

\* C16: is_question_branch answers (True, None) exactly when the branch is a
\* string that is a well-formed key, ordinary or reserved, or a non-empty
\* mapping whose values are all well-formed keys, whatever its keys are; and
\* a questionnaire whose questions are valid but for their branches is
\* accepted exactly when every branch is well-formed, whether or not a
\* question has the key branched to.
C16_BranchIsAKeyOrMapsToKeys ==
    /\ fn = "is_question_branch" => (ReturnedValid(out) <=> BranchShape(args[1]))
    /\ fn = "is_task_presenter_configuration"
        => (ReturnedValid(out)
                <=> \A q \in QuestionsOf(args[1]) :
                        HasKey(q, Str("branch")) => BranchShape(Get(q, Str("branch"))))

\* a questionnaire of one question that branches to nowhere, the key of no
\* question, has been accepted
C16_Witness ==
    /\ fn = "is_task_presenter_configuration"
    /\ QuestionsOf(args[1]) = {BranchingQuestion(Str("nowhere"))}
    /\ ReturnedValid(out)

-----------------------------------------------------------------------------
(* Text inputs and multiple-option inputs *)

TextFieldPool ==
    Field("min-length", {Num(-1), Num(0), Num(2), Num(3)})
    \cup Field("max-length", {Num(-2), Num(0), Num(2), Num(3)})
    \cup Field("placeholder", {Str("Type here"), Str("")})
    \cup Field("enable-long-text", {Bool(TRUE), Num(1)})
    \cup Field("size", {Num(10)})

\* text inputs with at most MaxInputFields fields besides their type
TextInputs ==
    {Dict(<< <<Str("type"), Str("text")>> >> \o d) : d \in ItemSeqs(TextFieldPool, MaxInputFields)}

IllustrationPool ==
    Field("image", {Str("a.jpg"), Str(""), None})
    \cup Field("page", {Str("http://a.org"), Num(3)})
    \cup Field("attribution", {Str("UN")})
    \cup Field("source", {Str("x")})
Illustrations == Dicts(IllustrationPool, MaxInputFields)

Option(label, fields) ==
    Dict(<< <<Str("label"), label>>, <<Str("value"), Str("yes")>> >> \o fields)

\* the options: with an illustration, without one, and one with an empty label
Options ==
    {Option(Str("Yes"), << <<Str("illustration"), illustration>> >>) :
        illustration \in Illustrations}
    \cup {Option(Str("Yes"), <<>>), Option(Str(""), <<>>)}

MultipleOptionInputs ==
    {Dict(<< <<Str("type"), Str("multiple-option")>>,
             <<Str("enable-illustrations"), Bool(enable)>>,
             <<Str("options"), List(others \o <<option>>)>> >>) :
        enable \in BOOLEAN, option \in Options, others \in {<<>>, <<Option(Str("No"), <<>>)>>}}

NextInputs ==
    \/ Call_is_question_input(TextInputs, {None, List(<<Str("en")>>)})
    \/ Call_is_question_input(MultipleOptionInputs, {None})
    \/ Done

SpecInputs == Init /\ [][NextInputs]_vars

\* the input declares the type, and every field of it is in the type's allow-list
InputOfType(question_input, type) ==
    /\ IsDict(question_input)
    /\ Get(question_input, Str("type")) = Str(type)
    /\ Undeclared(question_input, AllowList(question_input)) = {}

\* an optional field that is absent, or present with an acceptable value
Optional(document, field, Acceptable(_)) ==
    ~HasKey(document, Str(field)) \/ Acceptable(Get(document, Str(field)))

\* C17: a text input whose min-length and max-length are both integers is
\* answered (False, message) when either is negative and when max-length is
\* less than min-length; with neither negative and no other field invalid,
\* the message for max-length < min-length is that max-length must be greater
\* than or equal to min-length, and the input is accepted when
\* 0 <= min-length <= max-length.
C17_TextLengthsAreOrdered ==
    (fn = "is_question_input" /\ IsDict(args[1])
        /\ Get(args[1], Str("type")) = Str("text")
        /\ Get(args[1], Str("min-length")).t = "int"
        /\ Get(args[1], Str("max-length")).t = "int")
    => LET min == Get(args[1], Str("min-length")).n
           max == Get(args[1], Str("max-length")).n
           others == /\ InputOfType(args[1], "text")
                     /\ Optional(args[1], "placeholder", NonEmptyString)
                     /\ Optional(args[1], "enable-long-text", IsBool)
       IN  /\ (min < 0 \/ max < 0 \/ max < min) => ReturnedInvalid(out)
           /\ (0 <= max /\ max < min /\ others)
                => out.val = Pair(FALSE, Str("The 'max-length' must be greater than or equal to the 'min-length'."))
           /\ (0 <= min /\ min <= max /\ others) => ReturnedValid(out)

\* the text input with min-length 3 and max-length 2 has been refused
C17_Witness ==
    /\ fn = "is_question_input"
    /\ args[1] = Dict(<< <<Str("type"), Str("text")>>, <<Str("min-length"), Num(3)>>,
                         <<Str("max-length"), Num(2)>> >>)
    /\ ReturnedInvalid(out)

\* the illustrations of the options of a multiple-option input
IllustrationsOf(question_input) ==
    {Get(option, Str("illustration")) :
        option \in {o \in Items(Get(question_input, Str("options"))) :
                        HasKey(o, Str("illustration"))}}

\* the illustration has no such field, or has it with a value that is no
\* non-empty string
Lacks(illustration, field) ==
    ~HasKey(illustration, Str(field)) \/ ~NonEmptyString(Get(illustration, Str(field)))

\* C18, as the specification states it: a multiple-option input with
\* enable-illustrations true, whose options are well-formed but for their
\* illustrations, and with an illustration that lacks one of image, page and
\* attribution, or has it empty or no string, is answered (False, message)
\* and the message names a field that one of its illustrations lacks or has
\* invalid.
C18_MissingIllustrationFieldIsNamed ==
    (fn = "is_question_input" /\ InputOfType(args[1], "multiple-option")
        /\ Get(args[1], Str("enable-illustrations")) = Bool(TRUE)
        /\ IsList(Get(args[1], Str("options")))
        /\ \A o \in Items(Get(args[1], Str("options"))) :
              /\ IsDict(o)
              /\ NonEmptyString(Get(o, Str("label")))
              /\ IsStr(Get(o, Str("value")))
              /\ Optional(o, "illustration", IsDict)
        /\ \E illustration \in IllustrationsOf(args[1]) :
              \E f \in {"image", "page", "attribution"} : Lacks(illustration, f))
    => /\ ReturnedInvalid(out)
       /\ \E illustration \in IllustrationsOf(args[1]) :
             \E f \in {"image", "page", "attribution"} :
                Lacks(illustration, f) /\ Names(out.val.message, f)

-----------------------------------------------------------------------------
(* Tutorial subjects and their assertions *)

AssertionPool ==
    Field("expects", {Str("yes"), Str(""), Num(1)})
    \cup Field("messages", {Dict(<< <<Str("no"), Str("Look again.")>> >>)})
    \cup Field("autocomplete", {Bool(TRUE), Str("no")})
Assertions == Dicts(AssertionPool, MaxInputFields)

WellFormedAssertion == Dict(<< <<Str("expects"), Str("yes")>> >>)

\* assertions mappings with ordinary, reserved and malformed keys
SubjectAssertionPool ==
    {<<key, assertion>> : key \in {Str("ready"), Str("_end"), Str("a b")},
                          assertion \in {WellFormedAssertion, Dict(<<>>)}}
TutorialSubjects_ ==
    {TutorialSubject(assertions) : assertions \in ItemSeqs(SubjectAssertionPool, MaxEntries)}
    \cup {Dict(<< <<Str("source"), Str("demo.jpg")>>, <<Str("page"), Str("1")>> >>)}

Tutorials == {Tutorial(<<subject>>) : subject \in TutorialSubjects_} \cup {Tutorial(<<>>)}

Call_is_tutorial_subject_assertion ==
    /\ Idle
    /\ \E tutorial_subject_assertion \in Assertions \cup {None, Str("yes")},
          languages \in {None, List(<<Str("en")>>), Num(42)} :
        Call("is_tutorial_subject_assertion", <<tutorial_subject_assertion, languages>>,
             is_tutorial_subject_assertion(tutorial_subject_assertion, languages,
                                           KNOWN_LANGUAGE_CODES))

Call_is_tutorial_subject(tutorial_subjects) ==
    /\ Idle
    /\ \E tutorial_subject \in tutorial_subjects, languages \in {None, List(<<Str("en")>>)} :
        Call("is_tutorial_subject", <<tutorial_subject, languages>>,
             is_tutorial_subject(tutorial_subject, languages, KNOWN_LANGUAGE_CODES))

Call_is_tutorial_configuration ==
    /\ Idle
    /\ \E tutorial_configuration \in Tutorials,
          task_presenter_configuration \in {ValidTaskPresenter, SpokenTaskPresenter},
          validate_task_presenter_configuration \in BOOLEAN :
        Call("is_tutorial_configuration",
             <<tutorial_configuration, task_presenter_configuration, Bool(FALSE),
               Bool(validate_task_presenter_configuration)>>,
             is_tutorial_configuration(tutorial_configuration, task_presenter_configuration,
                                       Bool(FALSE), Bool(validate_task_presenter_configuration),
                                       KNOWN_LANGUAGE_CODES))

NextTutorial ==
    \/ Call_is_tutorial_subject_assertion
    \/ Call_is_tutorial_subject(TutorialSubjects_)
    \/ Call_is_tutorial_configuration
    \/ Done

SpecTutorial == Init /\ [][NextTutorial]_vars

\* the assertions of a tutorial subject that has some
AssertionsOf(tutorial_subject) ==
    IF IsDict(tutorial_subject) /\ IsDict(Get(tutorial_subject, Str("assertions")))
    THEN Get(tutorial_subject, Str("assertions")) ELSE Dict(<<>>)

\* C19, as the specification states it: a tutorial subject whose assertions
\* all have well-formed keys, ordinary or reserved, one of them reserved, is
\* not answered with the refusal of a key.
C19_ReservedAssertionKeyIsAllowed ==
    (fn = "is_tutorial_subject"
        /\ (\A key \in KeySet(AssertionsOf(args[1])) : IsStr(key) /\ KeyShape(key.s))
        /\ (\E reserved \in KeySet(AssertionsOf(args[1])) : CharAt(reserved.s, 1) = "_"))
    => ~(ReturnedInvalid(out) /\ Contains(out.val.message.s, "A question key must be"))

\* expects is a non-empty string, and messages and autocomplete, when
\* present, are a mapping of labels to configuration strings and a boolean
WellFormed(assertion) ==
    /\ IsDict(assertion)
    /\ NonEmptyString(Get(assertion, Str("expects")))
    /\ Optional(assertion, "autocomplete", IsBool)
    /\ Optional(assertion, "messages", IsDict)

\* C20, as the specification states it: is_tutorial_subject_assertion answers
\* (True, None) for an assertion whose expects is a non-empty string, with
\* messages and autocomplete well-formed when present, and (False, message)
\* for one whose expects is missing or empty; and is_tutorial_configuration
\* accepts a tutorial whose subjects each carry at least one assertion, all
\* of them well-formed and under ordinary keys.
C20_AssertionIsValidated ==
    /\ (fn = "is_tutorial_subject_assertion" /\ IsDict(args[1])
            /\ ArgTypeOk(args[2], {"list", "none"}))
        => /\ WellFormed(args[1]) => ReturnedValid(out)
           /\ (~HasKey(args[1], Str("expects")) \/ Get(args[1], Str("expects")) = Str(""))
                => ReturnedInvalid(out)
    /\ (fn = "is_tutorial_configuration" /\ Len(Get(args[1], Str("subjects")).l) >= 1
            /\ \A subject \in Items(Get(args[1], Str("subjects"))) :
                  /\ HasKey(subject, Str("assertions"))
                  /\ Len(AssertionsOf(subject).d) >= 1
                  /\ \A i \in 1..Len(AssertionsOf(subject).d) :
                        /\ ReturnedValid(is_question_key(AssertionsOf(subject).d[i][1],
                                                         KNOWN_LANGUAGE_CODES))
                        /\ WellFormed(AssertionsOf(subject).d[i][2]))
        => ReturnedValid(out)

-----------------------------------------------------------------------------
(* The fields of a tutorial subject *)

SubjectPool ==
    Field("source", {Str("demo.jpg"), Str("")})
    \cup Field("page", {Str("1")})
    \cup Field("assertions", {Dict(<<>>), Dict(<< <<Str("ready"), WellFormedAssertion>> >>)})
    \cup Field("attribution", {Str("UNOSAT"), Str("")})
    \cup Field("caption", {Str("A flooded road.")})
AttributedSubjects == Dicts(SubjectPool, MaxFields)

NextSubjects ==
    \/ Call_is_tutorial_subject(AttributedSubjects)
    \/ Done

SpecSubjects == Init /\ [][NextSubjects]_vars

\* C21, as the specification states it: a tutorial subject is not refused for
\* carrying an attribution that is a non-empty string; its attribution field is
\* never reported as unrecognized.
C21_AttributionIsAllowed ==
    (fn = "is_tutorial_subject" /\ NonEmptyString(Get(args[1], Str("attribution"))))
    => ~(ReturnedInvalid(out)
         /\ Contains(out.val.message.s, "'attribution' is not a recognized"))

-----------------------------------------------------------------------------
(* Project configurations *)

\* name, short_name and description, each well-formed or not
RequiredProjectFields ==
    {<< <<Str("name"), name>>, <<Str("short_name"), short_name>>,
        <<Str("description"), description>> >> :
        name \in {Str("Demo"), Str("  "), Num(42)},
        short_name \in {Str("demo-1_A"), Str("de mo"), Str(""), Num(42)},
        description \in {Str("A demo."), Str(""), None}}

OptionalProjectPool ==
    Field("repository", {Str("https://github.com/demo.git"), Str("github.com/demo"),
                         Str("http://127.0.0.1/demo.git"), Str("http://1{}.{{{}2{}"),
                         Num(42)})
    \cup Field("do_not_track", {Bool(FALSE), Str("yes")})
    \cup Field("unknown_key", {Num(42)})

\* the required fields before or after the other fields
ProjectConfigurations ==
    {Dict(required \o others) : required \in RequiredProjectFields,
                                others \in ItemSeqs(OptionalProjectPool, MaxEntries)}
    \cup {Dict(others \o required) : required \in RequiredProjectFields,
                                     others \in ItemSeqs(OptionalProjectPool, MaxEntries)}

NextProject ==
    \/ Call_is_project_configuration(ProjectConfigurations)
    \/ Done

SpecProject == Init /\ [][NextProject]_vars

\* four runs of one to three digits, separated by dots, make up s[i..j]
DottedQuad(s, i, j) ==
    \E a \in i..j, b \in i..j, c \in i..j :
        /\ a < b /\ b < c
        /\ \A d \in {a, b, c} : CharAt(s, d) = "."
        /\ \A run \in {<<i, a - 1>>, <<a + 1, b - 1>>, <<b + 1, c - 1>>, <<c + 1, j>>} :
              /\ run[2] - run[1] \in 0..2
              /\ AllIn(s, run[1], run[2], Digit)

\* a URL with an explicit scheme: scheme://host, the host a domain name or a
\* dotted-quad address, then an optional port and an optional path
WellFormedUrl(s) ==
    \E a \in 1..Len(s), j \in 1..Len(s) :
        /\ AllIn(s, 1, a, Lower)
        /\ Slice(s, a + 1, a + 3) = "://"
        /\ UrlHostName(s, a + 4, j) \/ DottedQuad(s, a + 4, j)
        /\ UrlTail(s, j + 1)

\* a non-empty string of letters, digits, hyphens and underscores
ShortNameShape(v) ==
    IsStr(v) /\ v.s # "" /\ \A i \in 1..Len(v.s) : CharAt(v.s, i) \in KeyChars

\* C22, as the specification states it: a project document that has name,
\* short_name and description is answered with a pair, never an exception, and
\* with (True, None) exactly when name and description are strings neither
\* empty nor whitespace only, short_name is a non-empty string of letters,
\* digits, hyphens and underscores, repository, when present, is a string URL
\* with an explicit scheme, do_not_track, when present, is a boolean, and no
\* other field is present.
C22_ProjectIsValidIff ==
    (fn = "is_project_configuration" /\ IsDict(args[1])
        /\ Missing(args[1], PROJECT_REQUIRED_FIELDS) = <<>>)
    => /\ ReturnedValid(out) \/ ReturnedInvalid(out)
       /\ ReturnedValid(out)
          <=> /\ NonEmptyString(Get(args[1], Str("name")))
              /\ NonEmptyString(Get(args[1], Str("description")))
              /\ ShortNameShape(Get(args[1], Str("short_name")))
              /\ Optional(args[1], "repository", LAMBDA v : IsStr(v) /\ WellFormedUrl(v.s))
              /\ Optional(args[1], "do_not_track", IsBool)
              /\ KeySet(args[1]) \subseteq {Str(f) : f \in PROJECT_FIELDS}

-----------------------------------------------------------------------------
(* The steps of is_configuration_set *)

\* the call has passed its checks and is in its loop over the members
Running(kc) == [k |-> "running", val |-> None, exc |-> "", kc |-> kc]

\* sets whose task presenter names its languages, well or badly
SteppedPool ==
    ConfigurationPool
    \cup Field("task_presenter",
               {Dict(<< <<Str("language"), Num(42)>>,
                        <<Str("questionnaire"), Questionnaire(<<ValidQuestion>>)>> >>),
                Dict(<< <<Str("language"), Language("fr", <<Str("fr")>>)>>,
                        <<Str("questionnaire"), Questionnaire(<<ValidQuestion>>)>> >>)})
SteppedSets == Dicts(SteppedPool, MaxSetEntries)

\* the checks of the arguments, and the test that project and task_presenter
\* are non-empty dictionaries
Enter_is_configuration_set ==
    /\ Idle
    /\ \E configurations \in SteppedSets :
        /\ fn' = "is_configuration_set"
        /\ args' = <<configurations, Bool(FALSE)>>
        /\ out' = IF ~ArgTypeOk(configurations, {"dict"})
                  THEN Raise("TypeError", KNOWN_LANGUAGE_CODES)
                  ELSE IF \E k \in {"project", "task_presenter"} :
                             ~is_nonempty_dictionary(Get(configurations, Str(k)))
                  THEN Raise("ValueError", KNOWN_LANGUAGE_CODES)
                  ELSE Running(KNOWN_LANGUAGE_CODES)
    /\ visited' = <<>>
    /\ UNCHANGED <<KNOWN_LANGUAGE_CODES, hashOrder, threads>>

\* valid, message = validator(configuration, enable_logging=enable_logging)
\* and the test of valid, for the member of the given key
Validated(key, outcome) ==
    /\ visited' = Append(visited, [key |-> key, outcome |-> outcome])
    /\ out' = IF ReturnedValid(outcome) THEN Running(outcome.kc) ELSE outcome
    /\ KNOWN_LANGUAGE_CODES' = outcome.kc

\* one iteration of for key, configuration in configurations.iteritems(),
\* or the return that follows the last one
Validate_member ==
    /\ fn = "is_configuration_set"
    /\ out.k = "running"
    /\ IF Len(visited) = Len(args[1].d)
       THEN /\ out' = Valid(KNOWN_LANGUAGE_CODES)
            /\ UNCHANGED <<KNOWN_LANGUAGE_CODES, visited>>
       ELSE IF ~(IsStr(args[1].d[Len(visited) + 1][1])
                 /\ args[1].d[Len(visited) + 1][1].s \in CONFIGURATION_KEYS)
       THEN /\ out' = Raise("KeyError", KNOWN_LANGUAGE_CODES)
            /\ UNCHANGED <<KNOWN_LANGUAGE_CODES, visited>>
       ELSE Validated(args[1].d[Len(visited) + 1][1].s,
                      ConfigurationValidator(args[1].d[Len(visited) + 1][1].s,
                                             args[1].d[Len(visited) + 1][2],
                                             args[1], args[2], KNOWN_LANGUAGE_CODES))
    /\ UNCHANGED <<fn, args, hashOrder, threads>>

\* the call is over and its caller has the result
Leave_is_configuration_set ==
    /\ fn = "is_configuration_set"
    /\ out.k # "running"
    /\ fn' = ""
    /\ args' = <<>>
    /\ out' = NoCall
    /\ visited' = <<>>
    /\ UNCHANGED <<KNOWN_LANGUAGE_CODES, hashOrder, threads>>

NextSteps ==
    \/ Enter_is_configuration_set
    \/ Validate_member
    \/ Leave_is_configuration_set

SpecSteps == Init /\ [][NextSteps]_vars

\* C23, as the specification states it: within one is_configuration_set call
\* the tutorial validator runs only after the task presenter of the same set
\* has been validated and found valid.
C23_TutorialFollowsValidTaskPresenter ==
    \A i \in 1..Len(visited) :
        visited[i].key = "tutorial"
        => \E j \in 1..(i - 1) :
              visited[j].key = "task_presenter" /\ ReturnedValid(visited[j].outcome)

-----------------------------------------------------------------------------
(* The cache of language codes *)

\* C24: every element of KNOWN_LANGUAGE_CODES is a string that has the shape
\* of a language tag, and a code that is_language_code has just refused is not
\* in the cache.
C24_CacheHoldsOnlyTags ==
    /\ \A code \in KNOWN_LANGUAGE_CODES : IsStr(code) /\ TagShape(code.s)
    /\ (fn = "is_language_code" /\ ~Truthy(out.val))
        => args[1] \notin KNOWN_LANGUAGE_CODES

\* az-latn has been refused while the cache holds a plain code and one with a script
C24_Witness ==
    /\ fn = "is_language_code"
    /\ args[1] = Str("az-latn")
    /\ ~Truthy(out.val)
    /\ {Str("en"), Str("zh-Hans")} \subseteq KNOWN_LANGUAGE_CODES

\* two outcomes with the same value returned or the same exception raised
SameResult(o1, o2) == o1.k = o2.k /\ o1.val = o2.val /\ o1.exc = o2.exc

\* C25: whatever the cache holds when they are called, is_language_code and
\* is_configuration_string give the result they give with an empty cache.
C25_ResultIgnoresTheCache ==
    /\ fn = "is_language_code"
        => SameResult(out, is_language_code(args[1], {}))
    /\ fn = "is_configuration_string"
        => SameResult(out, is_configuration_string(args[1], args[2], {}))

\* a mapping with an English entry has been validated against the list
\* [en, fr] with en, fr and others in the cache
C25_Witness ==
    /\ fn = "is_configuration_string"
    /\ IsDict(args[1]) /\ HasKey(args[1], Str("en"))
    /\ args[2] = List(<<Str("en"), Str("fr")>>)
    /\ Cardinality(KNOWN_LANGUAGE_CODES) >= 3
    /\ {Str("en"), Str("fr")} \subseteq KNOWN_LANGUAGE_CODES

-----------------------------------------------------------------------------
(* What a call changes *)

-----------------------------------------------------------------------------
(* Threads that call is_language_code at the same time *)

Threads == 1..MaxThreads

ThreadCodes == {Str("en"), Str("en-US"), Str("en-us"), Str(""), Num(42)}

\* every thread starts a call of is_language_code; out keeps the cache the
\* calls started with
Fork ==
    /\ Idle
    /\ \E codes \in [Threads -> ThreadCodes] :
        /\ fn' = "threads"
        /\ args' = codes
        /\ threads' = [thread \in Threads |->
                          [pc |-> "test", code |-> codes[thread],
                           valid |-> None, result |-> None]]
    /\ out' = Running(KNOWN_LANGUAGE_CODES)
    /\ UNCHANGED <<KNOWN_LANGUAGE_CODES, hashOrder, visited>>

\* the thread returns result
Return_(thread, result) ==
    threads' = [threads EXCEPT ![thread].pc = "done", ![thread].result = result]

\* if is_empty_string(code): return False
\* elif code in is_language_code.KNOWN_LANGUAGE_CODES: return True
\* with the TypeError of is_empty_string caught
Test(thread) ==
    /\ threads[thread].pc = "test"
    /\ IF ~Returned(is_empty_string(threads[thread].code, {}))
       THEN Return_(thread, Bool(FALSE))
       ELSE IF Truthy(is_empty_string(threads[thread].code, {}).val)
       THEN Return_(thread, Bool(FALSE))
       ELSE IF threads[thread].code \in KNOWN_LANGUAGE_CODES
       THEN Return_(thread, Bool(TRUE))
       ELSE threads' = [threads EXCEPT ![thread].pc = "match"]
    /\ UNCHANGED <<KNOWN_LANGUAGE_CODES, hashOrder, fn, args, out, visited>>

\* matches = re.match(...) and the computation of valid
Match(thread) ==
    /\ threads[thread].pc = "match"
    /\ LET matches == MatchLanguage(threads[thread].code.s) IN
       IF IsNone(matches) \/ matches.group # threads[thread].code.s
       THEN Return_(thread, Bool(FALSE))
       ELSE LET valid == IsVariety(matches.group2, {}) IN
            IF Truthy(valid)
            THEN threads' = [threads EXCEPT ![thread].pc = "add", ![thread].valid = valid]
            ELSE Return_(thread, valid)
    /\ UNCHANGED <<KNOWN_LANGUAGE_CODES, hashOrder, fn, args, out, visited>>

\* is_language_code.KNOWN_LANGUAGE_CODES.add(code), in one step, and return valid
Insert(thread) ==
    /\ threads[thread].pc = "add"
    /\ KNOWN_LANGUAGE_CODES' = Add(KNOWN_LANGUAGE_CODES, threads[thread].code)
    /\ Return_(thread, threads[thread].valid)
    /\ UNCHANGED <<hashOrder, fn, args, out, visited>>

\* every thread has returned
JoinThreads ==
    /\ fn = "threads"
    /\ \A thread \in Threads : threads[thread].pc = "done"
    /\ fn' = ""
    /\ args' = <<>>
    /\ out' = NoCall
    /\ threads' = [thread \in Threads |-> NoFrame]
    /\ UNCHANGED <<KNOWN_LANGUAGE_CODES, hashOrder, visited>>

NextThreads ==
    \/ Fork
    \/ \E thread \in Threads : Test(thread)
    \/ \E thread \in Threads : Match(thread)
    \/ \E thread \in Threads : Insert(thread)
    \/ JoinThreads

SpecThreads == Init /\ [][NextThreads]_vars

\* C27: however the tests of the cache and the insertions of the threads
\* interleave, each call returns what it returns when it runs alone, and when
\* all have returned the cache is the one they started with and the codes
\* found valid.
C27_ThreadsDoNotInterfere ==
    fn = "threads"
    => /\ \A thread \in Threads :
            threads[thread].pc = "done"
            => threads[thread].result = is_language_code(threads[thread].code, out.kc).val
       /\ (\A thread \in Threads : threads[thread].pc = "done")
            => KNOWN_LANGUAGE_CODES
                 = out.kc \cup {threads[thread].code : thread \in
                                   {th \in Threads : Truthy(threads[th].result)}}

\* two threads check en-US, which the cache did not hold; the first has
\* inserted it and returned, the second found it missing and is about to insert it
C27_Witness ==
    /\ fn = "threads"
    /\ Str("en-US") \notin out.kc
    /\ threads[1] = [pc |-> "done", code |-> Str("en-US"),
                     valid |-> Bool(TRUE), result |-> Bool(TRUE)]
    /\ threads[2].pc = "add"
    /\ threads[2].code = Str("en-US")

-----------------------------------------------------------------------------
(* The fields of the language and questionnaire documents *)

QuestionnairePool ==
    Field("questions", {List(<<ValidQuestion>>), List(<<ValidQuestion, ValidQuestion>>),
                        List(<<>>), Str("none")})
    \cup Field("title", {Str("Survey")})
    \cup Field("shuffle", {Bool(TRUE)})
Questionnaires == Dicts(QuestionnairePool, MaxFields)

Call_is_task_presenter_questionnaire ==
    /\ Idle
    /\ \E questionnaire \in Questionnaires, languages \in {None, List(<<Str("en")>>)} :
        Call("is_task_presenter_questionnaire", <<questionnaire, languages>>,
             is_task_presenter_questionnaire(questionnaire, languages, KNOWN_LANGUAGE_CODES))

NextNested ==
    \/ Call_is_task_presenter_language
    \/ Call_is_task_presenter_questionnaire
    \/ Done

SpecNested == Init /\ [][NextNested]_vars

\* the call answered (False, message), the message naming a field of the
\* document that is not among the declared
RejectedForUndeclared(document, declared) ==
    /\ ReturnedInvalid(out)
    /\ \E i \in Undeclared(document, declared) :
          Names(out.val.message, Format(document.d[i][1]))

\* C28, as the specification states it: a language document with a field other
\* than default and available, and a questionnaire document with a field
\* other than questions, each with its required fields, are refused with a
\* message that names such a field.
C28_NestedSchemasAreClosed ==
    /\ (fn = "is_task_presenter_language"
            /\ Missing(args[1], <<"default", "available">>) = <<>>
            /\ Undeclared(args[1], {"default", "available"}) # {})
        => RejectedForUndeclared(args[1], {"default", "available"})
    /\ (fn = "is_task_presenter_questionnaire"
            /\ Missing(args[1], <<"questions">>) = <<>>
            /\ Undeclared(args[1], {"questions"}) # {})
        => RejectedForUndeclared(args[1], {"questions"})

-----------------------------------------------------------------------------
(* The messages of the text input validator *)

\* an integer that is not negative
NonNegative(v) == v.t = "int" /\ v.n >= 0
\* an integer that is negative
Negative(v) == v.t = "int" /\ v.n < 0

\* C29, as the specification states it: for a text input whose other fields
\* are acceptable, a negative max-length, with min-length absent or not
\* negative, is refused with a message that names max-length, and a negative
\* min-length is refused with a message that names min-length.
C29_MessageNamesTheField ==
    (fn = "is_question_input" /\ ArgTypeOk(args[2], {"list", "none"})
        /\ InputOfType(args[1], "text")
        /\ Optional(args[1], "placeholder", NonEmptyString)
        /\ Optional(args[1], "enable-long-text", IsBool))
    => /\ (Negative(Get(args[1], Str("max-length")))
              /\ Optional(args[1], "min-length", NonNegative))
           => ReturnedInvalid(out) /\ Names(out.val.message, "max-length")
       /\ Negative(Get(args[1], Str("min-length")))
           => ReturnedInvalid(out) /\ Names(out.val.message, "min-length")

-----------------------------------------------------------------------------
(* The order of the fields of a question *)

\* questions with up to MaxFields fields, several of them defective at once
OrderedQuestionPool ==
    Field("key", {Str("ready"), Str("a b")})
    \cup Field("title", {Str("Are you ready?"), Num(42)})
    \cup Field("input", {PolarInput, Dict(<< <<Str("type"), Str("number")>> >>)})
    \cup Field("hint", {Str("Look closely."), List(<<>>)})
    \cup Field("hintr", {Str("This field's key has a typo!")})
OrderedQuestions == Dicts(OrderedQuestionPool, MaxFields)

NextOrder ==
    \/ Call_is_question(OrderedQuestions, {None, List(<<Str("en")>>)})
    \/ Done

SpecOrder == Init /\ [][NextOrder]_vars

\* the document with its items i and i + 1 in the other order
Swapped(document, i) ==
    Dict([n \in 1..Len(document.d) |->
             IF n = i THEN document.d[i + 1]
             ELSE IF n = i + 1 THEN document.d[i]
             ELSE document.d[n]])

\* returns valid, returns invalid, or raises
OutcomeClass(o) ==
    IF ~Returned(o) THEN "raises"
    ELSE IF ReturnedValid(o) THEN "valid" ELSE "invalid"

\* C30, as the specification states it: is_question gives a question and the
\* same question with two neighbouring fields exchanged outcomes of the same
\* class; as every order of the fields is reached by such exchanges, the class
\* is the same for all orders.
C30_OutcomeIgnoresFieldOrder ==
    (fn = "is_question" /\ IsDict(args[1]))
    => \A i \in 1..(Len(args[1].d) - 1) :
          OutcomeClass(is_question(Swapped(args[1], i), args[2], KNOWN_LANGUAGE_CODES))
            = OutcomeClass(out)

=============================================================================
